---- MODULE Spec2Model ----
(***************************************************************************)
(* Model of libraries/complaint_classifier.py: the ComplaintClassifier     *)
(* engine (keyword classification with an optional zero-shot collaborator, *)
(* and extract_key_info with its severity scoring).                        *)
(*                                                                         *)
(* A text is a sequence of characters; a character is a one-token string.  *)
(* Chinese characters are written in pinyin followed by an index that      *)
(* keeps different characters apart ("ji1" is 急, "ji2" is 即, "ji3" is 极); *)
(* the comments give the original strings.  ASCII characters are written   *)
(* as themselves.                                                          *)
(***************************************************************************)
EXTENDS Integers, Sequences, FiniteSets, TLC

VARIABLES
    complaint_categories,  \* self.complaint_categories: <<[name, keywords]>> in dict order
    use_transformer,       \* self.use_transformer
    pc,                    \* "idle"; "classifier" while self.classifier(...) runs;
                           \* "returned" when the call has ended
    op,                    \* the last public method called: "none", "classify", "extract_key_info"
    text,                  \* its argument
    invoked,               \* whether this call invoked self.classifier
    response,              \* what self.classifier answered in this call: [label, confidence]
    word_counts,           \* classify's local word_counts, in taxonomy order
    line,                  \* the source line of the return/raise that ended the call (0: none yet)
    category,              \* the value classify returned (NoValue: none)
    raised,                \* the exception that left the call ("": none)
    severity_scores,       \* extract_key_info's local severity_scores
    info,                  \* the dict extract_key_info returned
    remembered,            \* an earlier call and its outcome, kept by an observer
    tokens,                \* classify's local tokens (lines 130-136) and how it was made
    pipeline,              \* process_complaints: its complaints, its position, its results
    threads,               \* concurrent callers: each thread's method, argument, position and outcome
    frames,                \* the locals (word_counts, severity_scores, info) of the calls in progress
    construction,          \* __init__: its position, the environment's setting, how the model loaded
    database,              \* the complaints table, the clock, and the last call of DatabaseHandler
    mailbox                \* the messages of the complaint folder, with their \Seen flags

vars == <<complaint_categories, use_transformer, pc, op, text, invoked, response,
          word_counts, line, category, raised, severity_scores, info, remembered,
          tokens, pipeline, threads, frames, construction, database, mailbox>>

\* The state of one caller going through classify and extract_key_info.
call_vars == <<pc, op, text, invoked, response, word_counts, line, category, raised,
               severity_scores, info, remembered, tokens, pipeline>>

\* The state of the concurrent callers.
concurrency_vars == <<threads, frames>>

\* What is outside the engine's methods: its construction, the database, the mailbox.
environment_vars == <<construction, database, mailbox>>

----------------------------------------------------------------------------
(* Strings *)

UpperChars == <<"A","B","C","D","E","F","G","H","I","J","K","L","M",
                "N","O","P","Q","R","S","T","U","V","W","X","Y","Z">>
LowerChars == <<"a","b","c","d","e","f","g","h","i","j","k","l","m",
                "n","o","p","q","r","s","t","u","v","w","x","y","z">>

LowerOf == [c \in {UpperChars[i] : i \in 1..Len(UpperChars)} |->
                LowerChars[CHOOSE i \in 1..Len(UpperChars) : UpperChars[i] = c]]

\* str.lower() of one character: ASCII letters fold, every other character
\* of the model's alphabet (CJK, digits, punctuation) is unchanged.
LowerChar(c) == IF c \in DOMAIN LowerOf THEN LowerOf[c] ELSE c

\* str.lower()
lower(s) == [i \in 1..Len(s) |-> LowerChar(s[i])]

\* Python's `sub in s` on strings.
Contains(sub, s) ==
    \E i \in 0..(Len(s) - Len(sub)) :
        \A j \in 1..Len(sub) : s[i + j] = sub[j]

\* The characters str.split() splits at.
Whitespace == {" ", "\t", "\n", "\r", "\f"}

DigitChars == {"0", "1", "2", "3", "4", "5", "6", "7", "8", "9"}

\* The punctuation of the model's alphabet.
Punctuation == {"\"", "'", "$", ".", "-", "/", ","}

RECURSIVE SplitFrom(_, _, _)
\* str.split() from position i on, cur being the word read so far.
SplitFrom(s, i, cur) ==
    IF i > Len(s) THEN (IF cur = <<>> THEN <<>> ELSE <<cur>>)
    ELSE IF s[i] \in Whitespace
    THEN (IF cur = <<>> THEN <<>> ELSE <<cur>>) \o SplitFrom(s, i + 1, <<>>)
    ELSE SplitFrom(s, i + 1, Append(cur, s[i]))

\* str.split()
split(s) == SplitFrom(s, 1, <<>>)

\* str.isalpha(): not empty, and letters only (a CJK character is a letter).
isalpha(word) ==
    /\ word /= <<>>
    /\ \A i \in 1..Len(word) : word[i] \notin DigitChars \cup Whitespace \cup Punctuation

\* None as an argument where a string is expected.
None == <<"<None>">>

\* Truthy with the empty string taken for a text to classify.
TruthyNotNone(t) == t /= None

\* Python's truth value of `text` (line 113): None and "" are false.
Truthy(t) == t /= None /\ t /= <<>>

----------------------------------------------------------------------------
(* Program constants *)

\* The sentinel "未分类" (lines 114, 149).
Unclassified == "WeiFenLei"

\* No value returned (the call raised, or has not returned yet).
NoValue == "<no value>"

\* Python's None as a return value (falling off the end of classify).
NoneValue == "<None>"

\* The built-in taxonomy written when no categories file exists (lines 78-87).
DefaultCategories ==
  <<
    [name |-> "WuLiuYanChi",  \* 物流延迟: 延迟 还没到 运输时间 配送慢 物流 快递 发货 到达 等待
     keywords |-> <<<<"yan1", "chi1">>,
                    <<"hai1", "mei1", "dao1">>,
                    <<"yun1", "shu1", "shi1", "jian1">>,
                    <<"pei1", "song1", "man1">>,
                    <<"wu1", "liu1">>,
                    <<"kuai1", "di1">>,
                    <<"fa1", "huo1">>,
                    <<"dao1", "da1">>,
                    <<"deng1", "dai1">>>>],
    [name |-> "ShangPinSunHuai",  \* 商品损坏: 损坏 破损 不完整 质量问题 有缺陷 坏了 不能用
     keywords |-> <<<<"sun1", "huai1">>,
                    <<"po1", "sun1">>,
                    <<"bu1", "wan1", "zheng1">>,
                    <<"zhi1", "liang1", "wen1", "ti1">>,
                    <<"you1", "que1", "xian1">>,
                    <<"huai1", "le1">>,
                    <<"bu1", "neng1", "yong1">>>>],
    [name |-> "TuiKuanWenTi",  \* 退款问题: 退款 退钱 不退 退换 取消订单 不给退
     keywords |-> <<<<"tui1", "kuan1">>,
                    <<"tui1", "qian1">>,
                    <<"bu1", "tui1">>,
                    <<"tui1", "huan1">>,
                    <<"qu1", "xiao1", "ding1", "dan1">>,
                    <<"bu1", "gei1", "tui1">>>>],
    [name |-> "ShangPinZhiLiang",  \* 商品质量: 质量 不好 差 不符合 假货 不如描述 不如预期
     keywords |-> <<<<"zhi1", "liang1">>,
                    <<"bu1", "hao1">>,
                    <<"cha1">>,
                    <<"bu1", "fu1", "he1">>,
                    <<"jia1", "huo1">>,
                    <<"bu1", "ru1", "miao1", "shu2">>,
                    <<"bu1", "ru1", "yu1", "qi1">>>>],
    [name |-> "KeFuTiYan",  \* 客服体验: 客服 服务 态度 回复 沟通 联系不上 没人理
     keywords |-> <<<<"ke1", "fu2">>,
                    <<"fu2", "wu2">>,
                    <<"tai1", "du1">>,
                    <<"hui1", "fu3">>,
                    <<"gou1", "tong1">>,
                    <<"lian1", "xi1", "bu1", "shang1">>,
                    <<"mei1", "ren1", "li1">>>>],
    [name |-> "ZhangHuWenTi",  \* 账户问题: 账户 登录 密码 无法访问 注册 个人信息
     keywords |-> <<<<"zhang1", "hu1">>,
                    <<"deng2", "lu1">>,
                    <<"mi1", "ma1">>,
                    <<"wu3", "fa2", "fang1", "wen1">>,
                    <<"zhu1", "ce1">>,
                    <<"ge1", "ren1", "xin1", "xi2">>>>],
    [name |-> "CuXiaoZhengYi",  \* 促销争议: 优惠券 折扣 促销 活动 降价 价格 广告
     keywords |-> <<<<"you2", "hui2", "quan1">>,
                    <<"zhe1", "kou1">>,
                    <<"cu1", "xiao2">>,
                    <<"huo2", "dong1">>,
                    <<"jiang1", "jia2">>,
                    <<"jia2", "ge2">>,
                    <<"guang1", "gao1">>>>],
    [name |-> "XiTongGuZhang",  \* 系统故障: 网站 App 系统 错误 故障 无法 不能 崩溃 加载
     keywords |-> <<<<"wang1", "zhan1">>,
                    <<"A", "p", "p">>,
                    <<"xi1", "tong2">>,
                    <<"cuo1", "wu4">>,
                    <<"gu1", "zhang2">>,
                    <<"wu3", "fa2">>,
                    <<"bu1", "neng1">>,
                    <<"beng1", "kui1">>,
                    <<"jia3", "zai1">>>>]
  >>

\* The severity buckets of extract_key_info, in dict order (lines 211-215).
severity_keywords ==
  <<
    [name |-> "gao",  \* 高: 紧急 立即 非常不满 极其 要求 投诉 退款 起诉 举报 丢失
     keywords |-> <<<<"jin1", "ji1">>,
                    <<"li2", "ji2">>,
                    <<"fei1", "chang1", "bu1", "man2">>,
                    <<"ji3", "qi2">>,
                    <<"yao1", "qiu1">>,
                    <<"tou1", "su1">>,
                    <<"tui1", "kuan1">>,
                    <<"qi3", "su1">>,
                    <<"ju1", "bao1">>,
                    <<"diu1", "shi2">>>>],
    [name |-> "zhong",  \* 中: 不满 问题 失望 退换 损坏 延迟 错误
     keywords |-> <<<<"bu1", "man2">>,
                    <<"wen1", "ti1">>,
                    <<"shi2", "wang2">>,
                    <<"tui1", "huan1">>,
                    <<"sun1", "huai1">>,
                    <<"yan1", "chi1">>,
                    <<"cuo1", "wu4">>>>],
    [name |-> "di",  \* 低: 咨询 建议 希望 改进 询问 请问
     keywords |-> <<<<"zi1", "xun1">>,
                    <<"jian2", "yi1">>,
                    <<"xi3", "wang2">>,
                    <<"gai1", "jin2">>,
                    <<"xun1", "wen1">>,
                    <<"qing1", "wen1">>>>]
  >>

\* The taxonomy of the scenario: 物流延迟: 延迟 物流; 商品损坏: 损坏 破损.
ScenarioCategories ==
  <<
    [name |-> "WuLiuYanChi",
     keywords |-> <<<<"yan1", "chi1">>, <<"wu1", "liu1">>>>],
    [name |-> "ShangPinSunHuai",
     keywords |-> <<<<"sun1", "huai1">>, <<"po1", "sun1">>>>]
  >>

----------------------------------------------------------------------------
(* Bounded inputs *)

\* Most fragments a text is made of.
MaxFrags == 3

\* Most categories of a generated taxonomy.
MaxCats == 2

\* Most fragments of a text of the severity runs.
MaxSeverityFrags == 4

\* Most fragments of a text of the repeated-call runs.
MaxRepeatFrags == 2

\* The pieces texts are made of: 物流, 延迟, 损坏, APP, 太严重了.
Fragments ==
  << <<"wu1", "liu1">>,
     <<"yan1", "chi1">>,
     <<"sun1", "huai1">>,
     <<"A", "P", "P">>,
     <<"tai2", "yan2", "zhong1", "le1">> >>

RECURSIVE Join(_, _, _)
\* The concatenation of frags[idx[i]], i = from..Len(idx).
Join(frags, idx, from) ==
    IF from > Len(idx) THEN <<>>
    ELSE frags[idx[from]] \o Join(frags, idx, from + 1)

\* The texts made of at most maxn fragments taken in the order of frags
\* (a fragment may repeat).
TextsOf(frags, maxn) ==
    { Join(frags, idx, 1) :
        idx \in UNION { { f \in [1..n -> 1..Len(frags)] :
                            \A i \in 1..(n - 1) : f[i] <= f[i + 1] } : n \in 0..maxn } }

\* The arguments of classify and extract_key_info: the texts, "" among them, and None.
Texts == TextsOf(Fragments, MaxFrags) \cup {None}

\* The pieces of the texts of the severity runs: 紧急 and 投诉 (高), 非常 and 不满
\* (together 非常不满, 高; 不满 alone, 中), 问题 (中), 咨询, 建议 and 希望 (低).
SeverityFragments ==
  << <<"jin1", "ji1">>,
     <<"tou1", "su1">>,
     <<"fei1", "chang1">>,
     <<"bu1", "man2">>,
     <<"wen1", "ti1">>,
     <<"zi1", "xun1">>,
     <<"jian2", "yi1">>,
     <<"xi3", "wang2">> >>

SeverityTexts == TextsOf(SeverityFragments, MaxSeverityFrags) \cup {None}

\* The pieces of the texts of the repeated-call runs: 延迟, APP, 紧急.
RepeatFragments ==
  << <<"yan1", "chi1">>,
     <<"A", "P", "P">>,
     <<"jin1", "ji1">> >>

RepeatTexts == TextsOf(RepeatFragments, MaxRepeatFrags) \cup {None}

\* The keywords generated taxonomies use: 延迟, App.
KeywordPool == << <<"yan1", "chi1">>, <<"A", "p", "p">> >>

RECURSIVE Pick(_, _, _)
\* The keywords of pool whose index is in S, in pool order.
Pick(pool, S, i) ==
    IF i > Len(pool) THEN <<>>
    ELSE (IF i \in S THEN <<pool[i]>> ELSE <<>>) \o Pick(pool, S, i + 1)

KeywordLists == { Pick(KeywordPool, S, 1) : S \in SUBSET (1..Len(KeywordPool)) }

CategoryNames == <<"A", "B", "C", "D", "E">>

\* The texts made of at most maxn fragments of frags, in any order.
SequencesOf(frags, maxn) ==
    { Join(frags, idx, 1) : idx \in UNION { [1..n -> 1..Len(frags)] : n \in 0..maxn } }

\* Most fragments of a text of the product runs.
MaxProductFrags == 4

\* The pieces of the texts of the product runs: a double quote, a single quote,
\* an uppercase run, one uppercase letter, a lowercase letter, 机.
ProductFragments ==
  << <<"\"">>, <<"'">>, <<"A", "B">>, <<"C">>, <<"x">>, <<"ji4">> >>

ProductTexts == SequencesOf(ProductFragments, MaxProductFrags)

\* Most fragments of a text of the amount runs.
MaxAmountFrags == 4

\* The pieces of the texts of the amount runs: $, a blank, 7, .50, .5, 美元, 元.
AmountFragments ==
  << <<"$">>, <<" ">>, <<"7">>, <<".", "5", "0">>, <<".", "5">>,
     <<"mei2", "yuan1">>, <<"yuan1">> >>

AmountTexts == SequencesOf(AmountFragments, MaxAmountFrags)

\* Most fragments of a text of the date runs.
MaxDateFrags == 5

\* The pieces of the texts of the date runs: 2024, 13, 5, -, /.
DateFragments ==
  << <<"2", "0", "2", "4">>, <<"1", "3">>, <<"5">>, <<"-">>, <<"/">> >>

DateTexts == SequencesOf(DateFragments, MaxDateFrags)

\* The parts of the texts of the round-trip runs.  Uppercase tokens: ORD-12345,
\* AB, SKU7.
OrderTokens ==
    { <<"O", "R", "D", "-", "1", "2", "3", "4", "5">>,
      <<"A", "B">>,
      <<"S", "K", "U", "7">> }

\* Products: iPhone 13, AB, 手机, x.
Products ==
    { <<"i", "P", "h", "o", "n", "e", " ", "1", "3">>,
      <<"A", "B">>,
      <<"shou1", "ji4">>,
      <<"x">> }

\* Amounts as written, with their value in hundredths: $99.99, $5.00,
\* $ 12.50, $1000.05.
WrittenAmounts ==
    { [written |-> <<"$", "9", "9", ".", "9", "9">>, hundredths |-> 9999],
      [written |-> <<"$", "5", ".", "0", "0">>, hundredths |-> 500],
      [written |-> <<"$", " ", "1", "2", ".", "5", "0">>, hundredths |-> 1250],
      [written |-> <<"$", "1", "0", "0", "0", ".", "0", "5">>, hundredths |-> 100005] }

\* ISO dates: 2024-01-15, 2024-1-5, 2023/12/31.
IsoDates ==
    { <<"2", "0", "2", "4", "-", "0", "1", "-", "1", "5">>,
      <<"2", "0", "2", "4", "-", "1", "-", "5">>,
      <<"2", "0", "2", "3", "/", "1", "2", "/", "3", "1">> }

\* What stands before the four parts: 订单号 , 购买 , 花费 , 日期 ; or blanks.
Wordings ==
    { << <<"ding1", "dan1", "hao2", " ">>, <<" ", "gou2", "mai1", " ">>,
         <<" ", "hua1", "fei2", " ">>, <<" ", "ri1", "qi1", " ">> >>,
      << <<>>, <<" ">>, <<" ">>, <<" ">> >> }

\* A text of the shape 订单号 ORD-12345 购买 "iPhone 13" 花费 $99.99 日期 2024-01-15.
RoundTripText(w, u, p, a, d) ==
    w[1] \o u \o w[2] \o <<"\"">> \o p \o <<"\"">> \o w[3] \o a.written \o w[4] \o d

RoundTripTexts ==
    { RoundTripText(w, u, p, a, d) :
        w \in Wordings, u \in OrderTokens, p \in Products, a \in WrittenAmounts,
        d \in IsoDates }

\* A taxonomy with keywords that are no alphabetic words: 网络: 5G; 系统故障:
\* 5G App; 物流延迟: 延迟.
TokenCategories ==
  <<
    [name |-> "WangLuo", keywords |-> << <<"5", "G">> >>],
    [name |-> "XiTongGuZhang", keywords |-> << <<"5", "G", " ", "A", "p", "p">> >>],
    [name |-> "WuLiuYanChi", keywords |-> << <<"yan1", "chi1">> >>]
  >>

\* The pieces of the texts of the tokenizer runs: 5g, a blank, APP, 延迟.
TokenFragments ==
  << <<"5", "g">>,
     <<" ">>,
     <<"A", "P", "P">>,
     <<"yan1", "chi1">> >>

TokenTexts == TextsOf(TokenFragments, MaxFrags)

\* What complaint_categories.json may hold (lines 96-98): any mapping of names to
\* keyword lists, the empty mapping and empty lists included; and the two
\* taxonomies above.
Taxonomies ==
    UNION { { [i \in 1..n |-> [name |-> CategoryNames[i], keywords |-> ks[i]]] :
                ks \in [1..n -> KeywordLists] } : n \in 0..MaxCats }
    \cup {ScenarioCategories, DefaultCategories, TokenCategories}

\* What the zero-shot pipeline reports with its first label.
Confidences == {"low", "high"}

NoResponse == [label |-> NoValue, confidence |-> "none"]

\* The dict of a call that returned nothing.
NoInfo == [k \in {} |-> ""]

\* Nothing remembered.
NoCall == [op |-> "none"]

----------------------------------------------------------------------------
(* classify, lines 103-154 *)

\* self.stop_words (line 24): NLTK's English stop words, those of at most three
\* letters that begin with "a", "i" or "t" ("a", "i", "the", ...).
stop_words ==
    { <<"a">>, <<"i">>, <<"a", "m">>, <<"a", "n">>, <<"a", "s">>, <<"a", "t">>,
      <<"i", "f">>, <<"i", "n">>, <<"i", "s">>, <<"i", "t">>, <<"t", "o">>,
      <<"a", "l", "l">>, <<"a", "n", "d">>, <<"a", "n", "y">>, <<"a", "r", "e">>,
      <<"i", "t", "s">>, <<"t", "h", "e">>, <<"t", "o", "o">> }

\* nltk's word_tokenize on a text of letters, digits and blanks: the words
\* between the blanks.
word_tokenize(s) == split(s)

\* No tokens: the call did not reach line 130.
NoTokens == [by |-> "none", value |-> <<>>]

\* tokens after lines 130-136: the words of word_tokenize that are alphabetic
\* and no stop words; or, when word_tokenize raised (the punkt data is missing,
\* line 47 could not download it), the bare except's text.lower().split().
Tokens(t, failed) ==
    IF failed
    THEN [by |-> "split", value |-> split(lower(t))]
    ELSE [by |-> "word_tokenize",
          value |-> SelectSeq(word_tokenize(lower(t)),
                              LAMBDA word : isalpha(word) /\ word \notin stop_words)]

RECURSIVE JoinTokens(_, _)
\* The tokens from i on, with a blank between them.
JoinTokens(toks, i) ==
    IF i > Len(toks) THEN <<>>
    ELSE IF i = Len(toks) THEN toks[i]
    ELSE toks[i] \o <<" ">> \o JoinTokens(toks, i + 1)

\* Searched taking the tokens for the text.
SearchedTokens(t, toks) == JoinTokens(toks.value, 1)

\* What the keywords are looked for in (line 142): the text; tokens is not
\* read after line 136.
Searched(t, toks) == t

\* candidate_labels (line 119)
candidate_labels(cats) == [i \in 1..Len(cats) |-> cats[i].name]

\* word_counts = {category: 0 for category in self.complaint_categories} (line 127)
InitWordCounts(cats) == [i \in 1..Len(cats) |-> 0]

\* KeywordMatches with the text as written: keyword_lower in text.
KeywordMatchesTextAsWritten(keyword, t) == Contains(lower(keyword), t)

\* KeywordMatches without the two lower() calls.
KeywordMatchesCased(keyword, t) == Contains(keyword, t)

\* keyword_lower in text.lower() (lines 141-142)
KeywordMatches(keyword, t) == Contains(lower(keyword), lower(t))

RECURSIVE CountKeywords(_, _, _, _)
\* The inner loop (lines 140-143) from keyword k on, count being word_counts[category].
CountKeywords(keywords, t, k, count) ==
    IF k > Len(keywords) THEN count
    ELSE CountKeywords(keywords, t, k + 1,
                       IF KeywordMatches(keywords[k], t) THEN count + 1 ELSE count)

\* The outer loop (lines 139-143).
UpdateWordCounts(cats, t, wc) ==
    [i \in 1..Len(cats) |-> CountKeywords(cats[i].keywords, t, 1, wc[i])]

RECURSIVE MaxValue(_, _, _)
\* max(word_counts.values()) of a non-empty table (line 146), from entry i on.
MaxValue(wc, i, best) ==
    IF i > Len(wc) THEN best
    ELSE MaxValue(wc, i + 1, IF wc[i] > best THEN wc[i] ELSE best)

RECURSIVE LastWithCount(_, _, _)
\* FirstWithCount with the loop keeping the last entry whose count is m.
LastWithCount(wc, m, i) ==
    IF i > Len(wc) THEN 0
    ELSE LET later == LastWithCount(wc, m, i + 1)
         IN  IF later /= 0 THEN later
             ELSE IF wc[i] = m THEN i ELSE 0

RECURSIVE FirstWithCount(_, _, _)
\* The loop of lines 152-154: the first entry from i on whose count is m; 0 when the
\* loop ends without returning.
FirstWithCount(wc, m, i) ==
    IF i > Len(wc) THEN 0
    ELSE IF wc[i] = m THEN i
    ELSE FirstWithCount(wc, m, i + 1)

\* KeywordMatching without the test of lines 148-149.
KeywordMatchingNoZeroTest(cats, t) ==
    LET wc == UpdateWordCounts(cats, t, InitWordCounts(cats))
    IN  IF Len(wc) = 0
        THEN [line |-> 146, category |-> NoValue, raised |-> "ValueError", word_counts |-> wc]
        ELSE LET max_count == MaxValue(wc, 2, wc[1])
                 first == FirstWithCount(wc, max_count, 1)
             IN  [line |-> 154, category |-> cats[first].name, raised |-> "",
                  word_counts |-> wc]

\* Lines 146-154 on the table wc: how the call ends.
SelectCategory(cats, wc) ==
    IF Len(wc) = 0
    THEN \* max() of an empty sequence
         [line |-> 146, category |-> NoValue, raised |-> "ValueError", word_counts |-> wc]
    ELSE LET max_count == MaxValue(wc, 2, wc[1])
             first == FirstWithCount(wc, max_count, 1)
         IN  IF max_count = 0
             THEN [line |-> 149, category |-> Unclassified, raised |-> "", word_counts |-> wc]
             ELSE IF first = 0
             THEN [line |-> 154, category |-> NoneValue, raised |-> "", word_counts |-> wc]
             ELSE [line |-> 154, category |-> cats[first].name,
                   raised |-> "", word_counts |-> wc]

\* The keyword path (lines 126-154).  tokens (lines 130-136) is a local that
\* nothing reads: the bare except keeps a tokenizer failure inside.
KeywordMatching(cats, t) ==
    SelectCategory(cats, UpdateWordCounts(cats, t, InitWordCounts(cats)))

\* CategoriesAfterMatching with every matched keyword removed from its list.
WithoutMatched(cats, t) ==
    [i \in 1..Len(cats) |->
        [cats[i] EXCEPT !.keywords = SelectSeq(@, LAMBDA k : ~KeywordMatches(k, t))]]

\* self.complaint_categories after the keyword path ran on t: the loops of lines
\* 127 and 139-143 only read it, and nothing is assigned to self.
CategoriesAfterMatching(cats, t) == cats

\* The state a call starts from: nothing of the previous call is visible to it.
Enter(method, t) ==
    /\ pc = "idle"
    /\ op' = method
    /\ text' = t

\* A call ends on the keyword path.
EndKeywordMatching(cats, t) ==
    \E failed \in BOOLEAN :
    LET toks == Tokens(t, failed)
        r == KeywordMatching(cats, Searched(t, toks))
    IN  /\ tokens' = toks
        /\ pc' = "returned"
        /\ line' = r.line
        /\ category' = r.category
        /\ raised' = r.raised
        /\ word_counts' = r.word_counts
        /\ complaint_categories' = CategoriesAfterMatching(cats, t)

\* classify(text) up to its return, or up to the call of self.classifier (line 120).
Classify(t) ==
    /\ Enter("classify", t)
    /\ response' = NoResponse
    /\ IF ~Truthy(t)
       THEN \* lines 113-114
            /\ pc' = "returned"
            /\ line' = 114
            /\ category' = Unclassified
            /\ raised' = ""
            /\ invoked' = FALSE
            /\ word_counts' = <<>>
            /\ tokens' = NoTokens
            /\ UNCHANGED complaint_categories
       ELSE IF use_transformer
       THEN \* lines 117-120
            /\ pc' = "classifier"
            /\ line' = 0
            /\ category' = NoValue
            /\ raised' = ""
            /\ invoked' = TRUE
            /\ word_counts' = <<>>
            /\ tokens' = NoTokens
            /\ UNCHANGED complaint_categories
       ELSE /\ invoked' = FALSE
            /\ EndKeywordMatching(complaint_categories, t)
    /\ severity_scores' = <<>>
    /\ info' = NoInfo
    /\ UNCHANGED <<use_transformer, remembered>>
    /\ UNCHANGED <<concurrency_vars, pipeline, environment_vars>>

\* self.classifier(...) returns; classify returns result['labels'][0] (line 121).
\* The pipeline's first label is one of the candidate labels.
ClassifierReturns(label, confidence) ==
    /\ pc = "classifier"
    /\ \E i \in 1..Len(complaint_categories) :
            candidate_labels(complaint_categories)[i] = label
    /\ response' = [label |-> label, confidence |-> confidence]
    /\ pc' = "returned"
    /\ line' = 121
    /\ category' = label
    /\ raised' = ""
    /\ UNCHANGED <<complaint_categories, use_transformer, op, text, invoked,
                   word_counts, severity_scores, info, remembered, tokens>>
    /\ UNCHANGED <<concurrency_vars, pipeline, environment_vars>>

\* self.classifier(...) raises an Exception; lines 122-124 log it and fall
\* through to the keyword path.
ClassifierRaises ==
    /\ pc = "classifier"
    /\ EndKeywordMatching(complaint_categories, text)
    /\ UNCHANGED <<use_transformer, op, text, invoked, response, severity_scores,
                   info, remembered>>
    /\ UNCHANGED <<concurrency_vars, pipeline, environment_vars>>

----------------------------------------------------------------------------
(* Regular expressions, as re.findall runs them (lines 169-170, 187-188, 205-206) *)

\* A character class: the characters of set, or with neg all the others.
Class(set) == [neg |-> FALSE, set |-> set]
NotClass(set) == [neg |-> TRUE, set |-> set]
InClass(c, cls) == (c \in cls.set) /= cls.neg

\* The items of a pattern: one character of a class; a greedy repetition of a
\* class, min to max times (max = Unbounded: no limit); a greedy optional
\* sub-pattern (?:...)?; the parentheses of the capture group.
One(cls) == [kind |-> "one", cls |-> cls]
Unbounded == 0 - 1
Rep(cls, min, max) == [kind |-> "rep", cls |-> cls, min |-> min, max |-> max]
Opt(inner) == [kind |-> "opt", inner |-> inner]
Open == [kind |-> "("]
Close == [kind |-> ")"]

Digit == Class({"0", "1", "2", "3", "4", "5", "6", "7", "8", "9"})
Space == Class({" ", "\t", "\n", "\r", "\f"})
Upper == Class({UpperChars[i] : i \in 1..Len(UpperChars)})
DateSep == Class({"-", "/"})

\* product_pattern with a group around the uppercase run: "([^"]+)"|'([^']+)'|([A-Z]{2,})
product_pattern_run_grouped ==
  << <<One(Class({"\""})), Open, Rep(NotClass({"\""}), 1, Unbounded), Close, One(Class({"\""}))>>,
     <<One(Class({"'"})), Open, Rep(NotClass({"'"}), 1, Unbounded), Close, One(Class({"'"}))>>,
     <<Open, Rep(Upper, 2, Unbounded), Close>> >>

\* "([^"]+)"|'([^']+)'|[A-Z]{2,}   (line 169)
product_pattern ==
  << <<One(Class({"\""})), Open, Rep(NotClass({"\""}), 1, Unbounded), Close, One(Class({"\""}))>>,
     <<One(Class({"'"})), Open, Rep(NotClass({"'"}), 1, Unbounded), Close, One(Class({"'"}))>>,
     <<Rep(Upper, 2, Unbounded)>> >>

\* \d+(?:\.\d{2})?
Number == <<Rep(Digit, 1, Unbounded), Opt(<<One(Class({"."})), Rep(Digit, 2, 2)>>)>>

\* \$\s*(\d+(?:\.\d{2})?)|(\d+(?:\.\d{2})?)\s*美元|(\d+(?:\.\d{2})?)\s*元   (line 187)
amount_pattern ==
  << <<One(Class({"$"})), Rep(Space, 0, Unbounded), Open>> \o Number \o <<Close>>,
     <<Open>> \o Number \o <<Close, Rep(Space, 0, Unbounded),
                             One(Class({"mei2"})), One(Class({"yuan1"}))>>,
     <<Open>> \o Number \o <<Close, Rep(Space, 0, Unbounded), One(Class({"yuan1"}))>> >>

\* date_pattern with the two day-first alternatives exchanged.
date_pattern_short_year_first ==
  << <<Rep(Digit, 4, 4), One(DateSep), Rep(Digit, 1, 2), One(DateSep), Rep(Digit, 1, 2)>>,
     <<Rep(Digit, 1, 2), One(DateSep), Rep(Digit, 1, 2), One(DateSep), Rep(Digit, 2, 2)>>,
     <<Rep(Digit, 1, 2), One(DateSep), Rep(Digit, 1, 2), One(DateSep), Rep(Digit, 4, 4)>> >>

\* \d{4}[-/]\d{1,2}[-/]\d{1,2}|\d{1,2}[-/]\d{1,2}[-/]\d{4}|\d{1,2}[-/]\d{1,2}[-/]\d{2}
\* (line 205)
date_pattern ==
  << <<Rep(Digit, 4, 4), One(DateSep), Rep(Digit, 1, 2), One(DateSep), Rep(Digit, 1, 2)>>,
     <<Rep(Digit, 1, 2), One(DateSep), Rep(Digit, 1, 2), One(DateSep), Rep(Digit, 4, 4)>>,
     <<Rep(Digit, 1, 2), One(DateSep), Rep(Digit, 1, 2), One(DateSep), Rep(Digit, 2, 2)>> >>

NoMatch == [ok |-> FALSE, end |-> 0, gs |-> 0, ge |-> 0]

RECURSIVE RunLen(_, _, _, _)
\* How many characters of cls follow from position i, at most cap (cap < 0: no cap).
RunLen(t, i, cls, cap) ==
    IF cap = 0 \/ i > Len(t) THEN 0
    ELSE IF ~InClass(t[i], cls) THEN 0
    ELSE 1 + RunLen(t, i + 1, cls, cap - 1)

RECURSIVE MatchFrom(_, _, _, _, _)
\* The backtracking match of items c.. of a pattern at position i of t: the
\* first match in the engine's order (greedy items give back one character at
\* a time).  k is the number of repetitions being tried for a "rep" item (-1:
\* not chosen yet).  end is the position after the match, gs..ge-1 the group.
MatchFrom(t, i, items, c, k) ==
    IF c > Len(items) THEN [ok |-> TRUE, end |-> i, gs |-> 0, ge |-> 0]
    ELSE LET item == items[c] IN
    CASE item.kind = "one" ->
            IF i <= Len(t) /\ InClass(t[i], item.cls)
            THEN MatchFrom(t, i + 1, items, c + 1, -1)
            ELSE NoMatch
      [] item.kind = "(" ->
            LET r == MatchFrom(t, i, items, c + 1, -1)
            IN  IF r.ok THEN [r EXCEPT !.gs = i] ELSE NoMatch
      [] item.kind = ")" ->
            LET r == MatchFrom(t, i, items, c + 1, -1)
            IN  IF r.ok THEN [r EXCEPT !.ge = i] ELSE NoMatch
      [] item.kind = "opt" ->
            LET taken == MatchFrom(t, i, item.inner \o SubSeq(items, c + 1, Len(items)), 1, -1)
            IN  IF taken.ok THEN taken ELSE MatchFrom(t, i, items, c + 1, -1)
      [] item.kind = "rep" ->
            IF k = -1
            THEN MatchFrom(t, i, items, c, RunLen(t, i, item.cls, item.max))
            ELSE IF k < item.min THEN NoMatch
            ELSE LET r == MatchFrom(t, i + k, items, c + 1, -1)
                 IN  IF r.ok THEN r
                     ELSE IF k = 0 THEN NoMatch
                     ELSE MatchFrom(t, i, items, c, k - 1)

RECURSIVE MatchAlternatives(_, _, _, _)
\* The first alternative from a on that matches at position i.
MatchAlternatives(t, i, pattern, a) ==
    IF a > Len(pattern) THEN NoMatch
    ELSE LET r == MatchFrom(t, i, pattern[a], 1, -1)
         IN  IF r.ok THEN [ok |-> TRUE, alt |-> a, start |-> i, end |-> r.end,
                           group |-> IF r.gs = 0 THEN <<>> ELSE SubSeq(t, r.gs, r.ge - 1)]
             ELSE MatchAlternatives(t, i, pattern, a + 1)

RECURSIVE FindAllFrom(_, _, _)
\* The non-overlapping matches of pattern in t from position i on, left to right.
\* (No pattern here matches the empty string.)
FindAllFrom(t, pattern, i) ==
    IF i > Len(t) THEN <<>>
    ELSE LET m == MatchAlternatives(t, i, pattern, 1)
         IN  IF m.ok THEN <<m>> \o FindAllFrom(t, pattern, m.end)
             ELSE FindAllFrom(t, pattern, i + 1)

\* re.findall(pattern, text)
findall(pattern, t) == FindAllFrom(t, pattern, 1)

\* What findall returns for a match of a pattern with several groups: the tuple
\* of its groups, '' for the groups of the other alternatives.
Groups(m, n) == [g \in 1..n |-> IF g = m.alt THEN m.group ELSE <<>>]

\* What findall returns for a match of a pattern without groups: the match.
Whole(t, m) == SubSeq(t, m.start, m.end - 1)

----------------------------------------------------------------------------
(* extract_key_info, lines 156-229 *)

RECURSIVE NonEmptyItems(_, _, _)
\* product_list (lines 173-181): the non-empty items of the tuples, in order,
\* from tuple n on; every tuple of products has ngroups items.
NonEmptyItems(products, ngroups, n) ==
    IF n > Len(products) THEN <<>>
    ELSE LET p == Groups(products[n], ngroups)
         IN  SelectSeq(p, LAMBDA item : item /= <<>>)
             \o NonEmptyItems(products, ngroups, n + 1)

\* The number of groups of a pattern: findall returns tuples when it is 2 or more.
GroupCount(pattern) ==
    Cardinality({a \in 1..Len(pattern) : \E c \in 1..Len(pattern[a]) : pattern[a][c] = Open})

\* info['product_name'] (lines 170-184): <<>> when the key is not set.
ProductName(t) ==
    LET product_list == NonEmptyItems(findall(product_pattern, t),
                                      GroupCount(product_pattern), 1)
    IN  IF product_list /= <<>> THEN <<product_list[1]>> ELSE <<>>

DigitValue(c) == CHOOSE d \in 0..9 : <<"0", "1", "2", "3", "4", "5", "6", "7", "8", "9">>[d + 1] = c

RECURSIVE Hundredths(_, _, _)
\* float(s) for s = digits, or digits "." two digits, as a number of hundredths:
\* the value read up to position i is acc.
Hundredths(s, i, acc) ==
    IF i > Len(s) THEN acc * 100
    ELSE IF s[i] = "."
    THEN acc * 100 + DigitValue(s[i + 1]) * 10 + DigitValue(s[i + 2])
    ELSE Hundredths(s, i + 1, acc * 10 + DigitValue(s[i]))

\* float(amount)
float(s) == Hundredths(s, 1, 0)

RECURSIVE LastAmount(_, _)
\* FirstAmount without the breaks of lines 197 and 202: every match overwrites
\* info['amount'].
LastAmount(amounts, n) ==
    IF n > Len(amounts) THEN <<>>
    ELSE LET items == SelectSeq(Groups(amounts[n], 3), LAMBDA item : item /= <<>>)
             later == LastAmount(amounts, n + 1)
         IN  IF later /= <<>> THEN later
             ELSE IF items /= <<>> THEN <<float(items[Len(items)])>> ELSE <<>>

RECURSIVE FirstAmount(_, _)
\* The loop of lines 191-202 from match n on: the first non-empty group of the
\* first match that has one.
FirstAmount(amounts, n) ==
    IF n > Len(amounts) THEN <<>>
    ELSE LET items == SelectSeq(Groups(amounts[n], 3), LAMBDA item : item /= <<>>)
         IN  IF items /= <<>> THEN <<float(items[1])>> ELSE FirstAmount(amounts, n + 1)

\* info['amount'] (lines 188-202): <<>> when the key is not set.
Amount(t) == FirstAmount(findall(amount_pattern, t), 1)

\* info['incident_date'] (lines 206-208): <<>> when the key is not set.
IncidentDate(t) ==
    LET dates == findall(date_pattern, t)
    IN  IF dates /= <<>> THEN <<Whole(t, dates[1])>> ELSE <<>>

\* severity_scores = {'高': 0, '中': 0, '低': 0} (line 217)
InitSeverityScores == [i \in 1..Len(severity_keywords) |-> 0]

RECURSIVE CountSeverity(_, _, _, _)
\* The inner loop (lines 219-221) from keyword k on: `keyword in text`, as written.
CountSeverity(keywords, t, k, count) ==
    IF k > Len(keywords) THEN count
    ELSE CountSeverity(keywords, t, k + 1,
                       IF Contains(keywords[k], t) THEN count + 1 ELSE count)

\* The loop of lines 218-221.
SeverityScores(t) ==
    [i \in 1..Len(severity_keywords) |->
        CountSeverity(severity_keywords[i].keywords, t, 1, InitSeverityScores[i])]

RECURSIVE MaxKeyLast(_, _, _)
\* MaxKey keeping the last of the largest.
MaxKeyLast(scores, i, best) ==
    IF i > Len(scores) THEN best
    ELSE MaxKeyLast(scores, i + 1, IF scores[i] >= scores[best] THEN i ELSE best)

RECURSIVE MaxKey(_, _, _)
\* max(severity_scores, key=severity_scores.get) (line 223): Python's max keeps
\* the first of the largest; best is the largest before entry i.
MaxKey(scores, i, best) ==
    IF i > Len(scores) THEN best
    ELSE MaxKey(scores, i + 1, IF scores[i] > scores[best] THEN i ELSE best)

\* info['severity'] (lines 223-227)
Severity(scores) ==
    LET max_severity == MaxKey(scores, 2, 1)
    IN  IF scores[max_severity] > 0
        THEN severity_keywords[max_severity].name
        ELSE "zhong"

\* One key of info, set when value (<<>> or <<v>>) holds a value.
Field(key, value) == IF value = <<>> THEN NoInfo ELSE key :> value[1]

\* The dict extract_key_info returns for a string (line 229).
Info(t, scores) ==
    Field("product_name", ProductName(t)) @@ Field("amount", Amount(t))
    @@ Field("incident_date", IncidentDate(t)) @@ ("severity" :> Severity(scores))

\* extract_key_info(text).  re.findall(product_pattern, None) raises TypeError
\* (line 170) before anything is computed.
ExtractKeyInfo(t) ==
    /\ Enter("extract_key_info", t)
    /\ pc' = "returned"
    /\ IF t = None
       THEN /\ line' = 170
            /\ raised' = "TypeError"
            /\ severity_scores' = <<>>
            /\ info' = NoInfo
       ELSE /\ line' = 229
            /\ raised' = ""
            /\ severity_scores' = SeverityScores(t)
            /\ info' = Info(t, SeverityScores(t))
    /\ response' = NoResponse
    /\ invoked' = FALSE
    /\ word_counts' = <<>>
    /\ tokens' = NoTokens
    /\ category' = NoValue
    /\ UNCHANGED <<complaint_categories, use_transformer, remembered>>
    /\ UNCHANGED <<concurrency_vars, pipeline, environment_vars>>

\* The caller takes what the call returned or raised (process_complaints, lines
\* 40 and 46); the call's frame, with its locals, is gone.
Forget ==
    /\ pc = "returned"
    /\ pc' = "idle"
    /\ op' = "none"
    /\ text' = <<>>
    /\ invoked' = FALSE
    /\ response' = NoResponse
    /\ word_counts' = <<>>
    /\ tokens' = NoTokens
    /\ line' = 0
    /\ category' = NoValue
    /\ raised' = ""
    /\ severity_scores' = <<>>
    /\ info' = NoInfo

\* A caller other than process_complaints goes on.
Continue ==
    /\ Forget
    /\ UNCHANGED <<complaint_categories, use_transformer, remembered>>
    /\ UNCHANGED <<concurrency_vars, pipeline, environment_vars>>

\* An observer notes the call that has just ended and its outcome, once.
Remember ==
    /\ pc = "returned"
    /\ remembered = NoCall
    /\ remembered' = [op |-> op, text |-> text, category |-> category,
                      raised |-> raised, info |-> info, between |-> FALSE]
    /\ UNCHANGED <<complaint_categories, use_transformer, pc, op, text, invoked, response,
                   word_counts, line, category, raised, severity_scores, info, tokens>>
    /\ UNCHANGED <<concurrency_vars, pipeline, environment_vars>>

\* An observer notes the call that has just ended, its outcome and the tokens
\* it made, once.
RememberTokens ==
    /\ pc = "returned"
    /\ remembered = NoCall
    /\ remembered' = [op |-> op, text |-> text, category |-> category,
                      raised |-> raised, tokens |-> tokens]
    /\ UNCHANGED <<complaint_categories, use_transformer, pc, op, text, invoked, response,
                   word_counts, line, category, raised, severity_scores, info, tokens>>
    /\ UNCHANGED <<concurrency_vars, pipeline, environment_vars>>

\* The observer notes that a call on another text has ended since.
NoteOther ==
    /\ pc = "returned"
    /\ remembered /= NoCall
    /\ text /= remembered.text
    /\ ~remembered.between
    /\ remembered' = [remembered EXCEPT !.between = TRUE]
    /\ UNCHANGED <<complaint_categories, use_transformer, pc, op, text, invoked, response,
                   word_counts, line, category, raised, severity_scores, info, tokens>>
    /\ UNCHANGED <<concurrency_vars, pipeline, environment_vars>>

----------------------------------------------------------------------------
(* DatabaseHandler, libraries/database_handler.py *)

\* Most records of one call of save_complaints.
MaxBatch == 3

\* The last day of the clock.
MaxDay == 3

\* days when the caller leaves it out (line 152).
DefaultDays == 30

\* The database before any call: an empty complaints table (line 80), the clock
\* at day 1, and no call of the handler yet.  Dates are day numbers.
NoDatabase == [rows |-> <<>>, today |-> 1, op |-> "none", complaints_data |-> <<>>,
               complaint_type |-> NoValue, days |-> 0, result |-> <<>>,
               saved_count |-> 0, raised |-> ""]

\* The records passed to save_complaints.  date is <<day>> for a string that
\* strptime parses (line 111) and <<>> for one it does not; sender stands for
\* the three keys read at lines 118-120 (sender, subject, content).  Message 1
\* of day 0, 物流延迟; message 2 of day 1, 退款问题; message 2 without date and
\* complaint_type; message 1 without sender; a record without id.
Records ==
    { [id |-> "1", sender |-> "a", date |-> <<0>>, complaint_type |-> "WuLiuYanChi"],
      [id |-> "2", sender |-> "b", date |-> <<1>>, complaint_type |-> "TuiKuanWenTi"],
      [id |-> "2", sender |-> "b"],
      [id |-> "1", date |-> <<>>],
      [sender |-> "a", date |-> <<0>>] }

ComplaintsData == UNION { [1..n -> Records] : n \in 0..MaxBatch }

\* The arguments of get_complaints_by_type: None, "", 物流延迟, 未分类; and 0 (as
\* None: no time filter), 1, 2 and the default.
TypeArguments == {NoneValue, "", "WuLiuYanChi", Unclassified}
DaysArguments == {0, 1, 2, DefaultDays}

\* QueryFirst without autoflush: the query sees the committed rows only.
QueryFirstCommitted(committed, added, id) ==
    \E i \in 1..Len(committed) : committed[i].email_id = id

\* session.query(Complaint).filter_by(email_id=...).first() is not None (line
\* 105).  The session of sessionmaker (line 83) flushes what was added before
\* it runs a query, so the rows added earlier in the call are seen too.
QueryFirst(committed, added, id) ==
    \E i \in 1..Len(committed \o added) : (committed \o added)[i].email_id = id

\* date_received (lines 110-113): the parsed date, or now when the key is
\* missing or the string does not parse (the bare except catches both).
ParseDate(complaint_data, today) ==
    IF "date" \in DOMAIN complaint_data /\ complaint_data["date"] /= <<>>
    THEN complaint_data["date"][1]
    ELSE today

\* Complaint(...) (lines 116-131) for a record that has the required keys.
NewComplaint(complaint_data, today) ==
    [email_id |-> complaint_data["id"],
     sender |-> complaint_data["sender"],
     date_received |-> ParseDate(complaint_data, today),
     complaint_type |-> IF "complaint_type" \in DOMAIN complaint_data
                        THEN complaint_data["complaint_type"]
                        ELSE Unclassified]

RECURSIVE SaveLoop(_, _, _, _, _)
\* The loop of lines 103-134 from record k on: the rows added to the session,
\* and the KeyError of line 105 or of lines 117-120.
SaveLoop(committed, added, complaints_data, k, today) ==
    IF k > Len(complaints_data) THEN [added |-> added, raised |-> ""]
    ELSE LET complaint_data == complaints_data[k]
         IN  IF "id" \notin DOMAIN complaint_data
             THEN [added |-> added, raised |-> "KeyError"]
             ELSE IF QueryFirst(committed, added, complaint_data["id"])
             THEN SaveLoop(committed, added, complaints_data, k + 1, today)
             ELSE IF "sender" \notin DOMAIN complaint_data
             THEN [added |-> added, raised |-> "KeyError"]
             ELSE SaveLoop(committed, Append(added, NewComplaint(complaint_data, today)),
                           complaints_data, k + 1, today)

\* unique=True on email_id (line 26): what the database accepts.
Unique(rows) ==
    \A i, j \in 1..Len(rows) : rows[i].email_id = rows[j].email_id => i = j

\* RowsAfterRollback without the rollback: what the session had flushed stays.
RowsWithoutRollback(committed, added) == committed \o added

\* The table after session.rollback() (line 146): what was committed before
\* the call.
RowsAfterRollback(committed, added) == committed

\* save_complaints (lines 95-150) on the table rows.  commits tells whether
\* the database carries out the commit of line 137 (it may refuse: disk full,
\* database locked); a commit that writes nothing is carried out.
SaveOutcome(rows, complaints_data, today, commits) ==
    IF complaints_data = <<>>
    THEN [rows |-> rows, saved_count |-> 0, raised |-> ""]
    ELSE LET loop == SaveLoop(rows, <<>>, complaints_data, 1, today)
             failure ==
                 IF loop.raised /= "" THEN loop.raised
                 ELSE IF ~Unique(rows \o loop.added) THEN "IntegrityError"
                 ELSE IF loop.added /= <<>> /\ ~commits THEN "OperationalError"
                 ELSE ""
         IN  IF failure /= ""
             THEN [rows |-> RowsAfterRollback(rows, loop.added), saved_count |-> 0,
                   raised |-> failure]
             ELSE [rows |-> rows \o loop.added, saved_count |-> Len(loop.added),
                   raised |-> ""]

\* query.all() (lines 165-177): the type filter when complaint_type is truthy,
\* and when days is truthy the filter date_received >= cutoff_date, where
\* cutoff_date is datetime.now().date(), today at 00:00.
Selected(rows, complaint_type, days, today) ==
    SelectSeq(rows, LAMBDA complaint :
        /\ (complaint_type \notin {NoneValue, ""}) =>
              complaint.complaint_type = complaint_type
        /\ days /= 0 => complaint.date_received >= today)

\* save_complaints(complaints_data)
SaveComplaints(complaints_data) ==
    /\ database.op = "none"
    /\ \E commits \in BOOLEAN :
          LET r == SaveOutcome(database.rows, complaints_data, database.today, commits)
          IN  database' = [database EXCEPT !.op = "save_complaints",
                                           !.complaints_data = complaints_data,
                                           !.rows = r.rows,
                                           !.saved_count = r.saved_count,
                                           !.raised = r.raised]
    /\ UNCHANGED <<complaint_categories, use_transformer, call_vars, concurrency_vars,
                   construction, mailbox>>

\* get_complaints_by_type(complaint_type, days), lines 152-199
GetComplaintsByType(complaint_type, days) ==
    /\ database.op = "none"
    /\ database' = [database EXCEPT
                      !.op = "get_complaints_by_type",
                      !.complaint_type = complaint_type,
                      !.days = days,
                      !.result = Selected(database.rows, complaint_type, days,
                                          database.today)]
    /\ UNCHANGED <<complaint_categories, use_transformer, call_vars, concurrency_vars,
                   construction, mailbox>>

\* The caller of the handler takes what the call returned or raised.
DatabaseReturns ==
    /\ database.op /= "none"
    /\ database' = [NoDatabase EXCEPT !.rows = database.rows, !.today = database.today]
    /\ UNCHANGED <<complaint_categories, use_transformer, call_vars, concurrency_vars,
                   construction, mailbox>>

\* Midnight: the next day begins.
DayPasses ==
    /\ database.op = "none"
    /\ database.today < MaxDay
    /\ database' = [database EXCEPT !.today = @ + 1]
    /\ UNCHANGED <<complaint_categories, use_transformer, call_vars, concurrency_vars,
                   construction, mailbox>>

----------------------------------------------------------------------------
(* process_complaints, tasks/process_complaints.py lines 20-67 *)

\* Most complaints of one run.
MaxComplaints == 2

\* The contents of the fetched mails: "", 延迟, "AB"$5投诉.  fetch_emails gives
\* strings only (email_processor.py, lines 148-151: _extract_order_number
\* raises on anything else).
Contents ==
    { <<>>,
      <<"yan1", "chi1">>,
      <<"\"", "A", "B", "\"", "$", "5", "tou1", "su1">> }

\* The message sequence numbers that mail.search returns (email_processor.py,
\* lines 98-105), as the strings of line 155.
MessageIds == <<"1", "2", "3", "4">>

\* Message i of the complaint folder: unread with a Subject header and one of
\* the contents; unread without a Subject header; or read before the run (not
\* UNSEEN, line 97).  seen is "no", "before" (the flag was set before the run)
\* or "run" (line 166 of this run set it).
MessagesAt(i) ==
    { [id |-> MessageIds[i], content |-> c, subject |-> TRUE, seen |-> "no"] :
        c \in Contents }
    \cup { [id |-> MessageIds[i], content |-> <<"yan1", "chi1">>, subject |-> FALSE,
            seen |-> "no"],
           [id |-> MessageIds[i], content |-> <<"yan1", "chi1">>, subject |-> TRUE,
            seen |-> "before"] }

Mailboxes ==
    UNION { { box \in [1..n -> UNION {MessagesAt(i) : i \in 1..n}] :
                \A i \in 1..n : box[i] \in MessagesAt(i) } : n \in 0..MaxComplaints }

\* complaint (email_processor.py, lines 154-161) of a fetched message: sender
\* stands for sender and subject, and the date is that of day 1.
FetchedComplaint(message) ==
    [id |-> message.id, sender |-> "a", date |-> <<1>>, content |-> message.content]

RECURSIVE FetchLoop(_, _, _)
\* The loop of email_processor.py, lines 114-166, from message i on: the
\* messages that are not UNSEEN are not in email_ids; decode_header(None)
\* raises TypeError for a message without Subject (line 125), and the
\* complaints collected so far are lost with the frame; otherwise the complaint
\* is appended and the message is marked as read (line 166).
FetchLoop(box, i, complaints) ==
    IF i > Len(box) THEN [mailbox |-> box, complaints |-> complaints, raised |-> ""]
    ELSE IF box[i].seen /= "no" THEN FetchLoop(box, i + 1, complaints)
    ELSE IF ~box[i].subject THEN [mailbox |-> box, complaints |-> <<>>, raised |-> "TypeError"]
    ELSE FetchLoop([box EXCEPT ![i].seen = "run"], i + 1,
                   Append(complaints, FetchedComplaint(box[i])))

\* fetch_emails() (email_processor.py, lines 79-173)
FetchEmails(box) == FetchLoop(box, 1, <<>>)

\* What sentiment_analyzer.analyze returns as its label: 负面 (正面 is alike for
\* what follows), or 中性, which is also what it returns when it catches an
\* exception of its own (sentiment_analyzer.py, lines 75-77).
SentimentLabels == {"FuMian", "ZhongXing"}

\* process_complaints has not fetched anything yet.
NoPipeline == [stage |-> "none", complaints |-> <<>>, k |-> 0,
               complaint_type |-> NoValue, sentiment_label |-> NoValue,
               processed_complaints |-> <<>>]

\* ProcessedComplaint without the extracted fields for an unclassified complaint.
ProcessedComplaintOfClassified(complaint, complaint_type, sentiment_label, extracted_info) ==
    IF complaint_type = Unclassified
    THEN [complaint_type |-> complaint_type, sentiment_label |-> sentiment_label]
         @@ complaint
    ELSE extracted_info
         @@ [complaint_type |-> complaint_type, sentiment_label |-> sentiment_label]
         @@ complaint

\* processed_complaint (lines 49-55): the keys of the complaint come first,
\* those of extracted_info last, and a later key replaces an earlier one.
ProcessedComplaint(complaint, complaint_type, sentiment_label, extracted_info) ==
    extracted_info
    @@ [complaint_type |-> complaint_type, sentiment_label |-> sentiment_label]
    @@ complaint

\* The complaint the loop of line 38 is at.
Current == pipeline.complaints[pipeline.k]

\* Line 33: the complaints are fetched, and the fetched messages are marked
\* as read; an exception of fetch_emails ends the task (lines 67-69).
PipelineFetch ==
    /\ pipeline.stage = "none"
    /\ pc = "idle"
    /\ LET fetched == FetchEmails(mailbox)
       IN  /\ mailbox' = fetched.mailbox
           /\ pipeline' = IF fetched.raised /= ""
                          THEN [NoPipeline EXCEPT !.stage = "fetch failed"]
                          ELSE [NoPipeline EXCEPT !.stage = "classify",
                                                  !.complaints = fetched.complaints,
                                                  !.k = 1]
    /\ UNCHANGED <<complaint_categories, use_transformer, pc, op, text, invoked, response,
                   word_counts, line, category, raised, severity_scores, info, remembered,
                   tokens, concurrency_vars, construction, database>>

\* Line 40: classify is called on the content of the complaint.
PipelineClassify ==
    /\ pipeline.stage = "classify"
    /\ pipeline.k <= Len(pipeline.complaints)
    /\ Classify(Current.content)

\* Line 40, classify has ended: its value is complaint_type; its exception
\* leaves the loop and the task (lines 65-67).
PipelineTakeType ==
    /\ pipeline.stage = "classify"
    /\ op = "classify"
    /\ Forget
    /\ pipeline' = IF raised /= ""
                   THEN [pipeline EXCEPT !.stage = "failed"]
                   ELSE [pipeline EXCEPT !.stage = "analyze", !.complaint_type = category]
    /\ UNCHANGED <<complaint_categories, use_transformer, remembered, concurrency_vars,
                   environment_vars>>

\* Line 43: the sentiment of the content.
PipelineAnalyze ==
    /\ pipeline.stage = "analyze"
    /\ \E label \in SentimentLabels :
          pipeline' = [pipeline EXCEPT !.stage = "extract", !.sentiment_label = label]
    /\ UNCHANGED <<complaint_categories, use_transformer, pc, op, text, invoked, response,
                   word_counts, line, category, raised, severity_scores, info, remembered,
                   tokens, concurrency_vars, environment_vars>>

\* Line 46: extract_key_info is called on the content of the complaint.
PipelineExtract ==
    /\ pipeline.stage = "extract"
    /\ ExtractKeyInfo(Current.content)

\* Lines 46-57, extract_key_info has ended: the record of the complaint is
\* appended and the loop goes to the next complaint.
PipelineAppend ==
    /\ pipeline.stage = "extract"
    /\ op = "extract_key_info"
    /\ Forget
    /\ pipeline' =
          IF raised /= ""
          THEN [pipeline EXCEPT !.stage = "failed"]
          ELSE [pipeline EXCEPT
                  !.stage = "classify",
                  !.k = @ + 1,
                  !.complaint_type = NoValue,
                  !.sentiment_label = NoValue,
                  !.processed_complaints =
                      Append(@, ProcessedComplaint(Current, pipeline.complaint_type,
                                                   pipeline.sentiment_label, info))]
    /\ UNCHANGED <<complaint_categories, use_transformer, remembered, concurrency_vars,
                   environment_vars>>

\* Lines 59-64: the loop has ended, the records are saved and reported; an
\* exception of save_complaints ends the task (lines 67-69).
PipelineSave ==
    /\ pipeline.stage = "classify"
    /\ pipeline.k > Len(pipeline.complaints)
    /\ pc = "idle"
    /\ \E commits \in BOOLEAN :
          LET r == SaveOutcome(database.rows, pipeline.processed_complaints,
                               database.today, commits)
          IN  /\ database' = [database EXCEPT !.rows = r.rows]
              /\ pipeline' = [pipeline EXCEPT !.stage = IF r.raised /= "" THEN "save failed"
                                                        ELSE "done"]
    /\ UNCHANGED <<complaint_categories, use_transformer, pc, op, text, invoked, response,
                   word_counts, line, category, raised, severity_scores, info, remembered,
                   tokens, concurrency_vars, construction, mailbox>>

----------------------------------------------------------------------------
(* Concurrent callers of one engine *)

\* The threads that call the engine.
Threads == {"t1", "t2"}

\* What the concurrent callers pass: 延迟, 物流损坏, "AB"$5投诉, "" and None.
ConcurrentTexts ==
    { <<"yan1", "chi1">>,
      <<"wu1", "liu1", "sun1", "huai1">>,
      <<"\"", "A", "B", "\"", "$", "5", "tou1", "su1">>,
      <<>>,
      None }

\* A thread that is in no call.
IdleThread == [op |-> "none", text |-> <<>>, at |-> "idle", i |-> 0, line |-> 0,
               category |-> NoValue, raised |-> "", info |-> NoInfo]

\* No frame: the thread is in no call.
NoFrame == [word_counts |-> <<>>, severity_scores |-> <<>>, info |-> NoInfo]

\* FrameOf with one table for all the callers, as if the locals were
\* attributes of the engine.
SharedFrameOf(th) == "t1"

\* Where a call keeps word_counts (line 127), info (line 166) and
\* severity_scores (line 217): they are locals, so each call has its own frame.
FrameOf(th) == th

\* The thread's call ends: its outcome goes to the caller, its frame is dropped.
ThreadReturns(th, ln, cat, exc, inf) ==
    /\ threads' = [threads EXCEPT ![th] =
                      [@ EXCEPT !.at = "returned", !.i = 0, !.line = ln,
                                !.category = cat, !.raised = exc, !.info = inf]]
    /\ frames' = [frames EXCEPT ![FrameOf(th)] = NoFrame]

\* A thread calls classify(t) on an engine without the zero-shot model: lines
\* 113-114, or line 127.
ThreadClassify(th, t) ==
    /\ threads[th].at = "idle"
    /\ ~use_transformer
    /\ IF ~Truthy(t)
       THEN /\ threads' = [threads EXCEPT ![th] =
                              [IdleThread EXCEPT !.op = "classify", !.text = t,
                                                 !.at = "returned", !.line = 114,
                                                 !.category = Unclassified]]
            /\ UNCHANGED frames
       ELSE /\ threads' = [threads EXCEPT ![th] =
                              [IdleThread EXCEPT !.op = "classify", !.text = t,
                                                 !.at = "counting", !.i = 1]]
            /\ frames' = [frames EXCEPT ![FrameOf(th)].word_counts =
                                            InitWordCounts(complaint_categories)]
    /\ UNCHANGED <<complaint_categories, use_transformer, call_vars, environment_vars>>

\* One iteration of the loop of line 139: the keywords of category i are counted
\* (lines 140-143).
ThreadCount(th) ==
    LET i == threads[th].i IN
    /\ threads[th].at = "counting"
    /\ i <= Len(complaint_categories)
    /\ frames' = [frames EXCEPT ![FrameOf(th)].word_counts =
                     IF i \in DOMAIN @
                     THEN [@ EXCEPT ![i] = CountKeywords(complaint_categories[i].keywords,
                                                          threads[th].text, 1, @)]
                     ELSE @]
    /\ threads' = [threads EXCEPT ![th].i = i + 1]
    /\ UNCHANGED <<complaint_categories, use_transformer, call_vars, environment_vars>>

\* The loop has ended: lines 146-154.
ThreadSelect(th) ==
    /\ threads[th].at = "counting"
    /\ threads[th].i > Len(complaint_categories)
    /\ LET r == SelectCategory(complaint_categories, frames[FrameOf(th)].word_counts)
       IN  ThreadReturns(th, r.line, r.category, r.raised, NoInfo)
    /\ UNCHANGED <<complaint_categories, use_transformer, call_vars, environment_vars>>

\* A thread calls extract_key_info(t): line 166, and the TypeError of line 170
\* for None.
ThreadExtract(th, t) ==
    /\ threads[th].at = "idle"
    /\ IF t = None
       THEN /\ threads' = [threads EXCEPT ![th] =
                              [IdleThread EXCEPT !.op = "extract_key_info", !.text = t,
                                                 !.at = "returned", !.line = 170,
                                                 !.raised = "TypeError"]]
            /\ UNCHANGED frames
       ELSE /\ threads' = [threads EXCEPT ![th] =
                              [IdleThread EXCEPT !.op = "extract_key_info", !.text = t,
                                                 !.at = "product"]]
            /\ frames' = [frames EXCEPT ![FrameOf(th)].info = NoInfo]
    /\ UNCHANGED <<complaint_categories, use_transformer, call_vars, environment_vars>>

\* One of the three extractions: lines 169-184, 187-202, 205-208.  An
\* assignment info[key] = value replaces what the dict holds for key.
ThreadField(th, from, key, value, to) ==
    /\ threads[th].at = from
    /\ frames' = [frames EXCEPT ![FrameOf(th)].info = Field(key, value) @@ @]
    /\ threads' = [threads EXCEPT ![th].at = to]
    /\ UNCHANGED <<complaint_categories, use_transformer, call_vars, environment_vars>>

ThreadProduct(th) ==
    ThreadField(th, "product", "product_name", ProductName(threads[th].text), "amount")

ThreadAmount(th) ==
    ThreadField(th, "amount", "amount", Amount(threads[th].text), "date")

ThreadDate(th) ==
    ThreadField(th, "date", "incident_date", IncidentDate(threads[th].text), "scores")

\* Line 217.
ThreadInitScores(th) ==
    /\ threads[th].at = "scores"
    /\ frames' = [frames EXCEPT ![FrameOf(th)].severity_scores = InitSeverityScores]
    /\ threads' = [threads EXCEPT ![th].at = "scoring", ![th].i = 1]
    /\ UNCHANGED <<complaint_categories, use_transformer, call_vars, environment_vars>>

\* One iteration of the loop of line 218: the keywords of bucket i are counted.
ThreadScore(th) ==
    LET i == threads[th].i IN
    /\ threads[th].at = "scoring"
    /\ i <= Len(severity_keywords)
    /\ frames' = [frames EXCEPT ![FrameOf(th)].severity_scores =
                     IF i \in DOMAIN @
                     THEN [@ EXCEPT ![i] = CountSeverity(severity_keywords[i].keywords,
                                                          threads[th].text, 1, @)]
                     ELSE @]
    /\ threads' = [threads EXCEPT ![th].i = i + 1]
    /\ UNCHANGED <<complaint_categories, use_transformer, call_vars, environment_vars>>

\* Lines 223-229.  max() of a dict that lost its keys raises ValueError.
ThreadDecide(th) ==
    LET f == frames[FrameOf(th)] IN
    /\ threads[th].at = "scoring"
    /\ threads[th].i > Len(severity_keywords)
    /\ IF f.severity_scores = <<>>
       THEN ThreadReturns(th, 223, NoValue, "ValueError", NoInfo)
       ELSE ThreadReturns(th, 229, NoValue, "",
                          ("severity" :> Severity(f.severity_scores)) @@ f.info)
    /\ UNCHANGED <<complaint_categories, use_transformer, call_vars, environment_vars>>

\* The caller takes the outcome and is free to call again.
ThreadContinue(th) ==
    /\ threads[th].at = "returned"
    /\ threads' = [threads EXCEPT ![th] = IdleThread]
    /\ UNCHANGED <<frames, complaint_categories, use_transformer, call_vars, environment_vars>>

----------------------------------------------------------------------------
(* generate_test_complaints, resources/generate_test_data.py lines 17-70 *)

\* The templates of COMPLAINT_TEMPLATES that embed the price as {amount}元
\* (lines 19, 21 and 23); a field is one token, "，" is "dou1" and "。" is "ju2".
\*   我收到的{product}已经损坏了，包装也很差。订单号{order_number}，价格{amount}元。
\*     这样的质量太差了，我要求退货退款。
\*   我购买的{product}和描述完全不符，质量非常差。订单号{order_number}，价格{amount}元。
\*     我要求退货并全额退款。
\*   我在{date}参加了你们的促销活动，购买了{product}，订单号{order_number}，
\*     但没有享受到承诺的折扣{amount}元。请解释清楚。
AmountTemplates ==
  {
    <<"wo1", "shou2", "dao1", "de1", "{product}", "yi2", "jing1", "sun1", "huai1",
      "le1", "dou1", "bao2", "zhuang1", "ye1", "hen1", "cha1", "ju2", "ding1", "dan1",
      "hao2", "{order_number}", "dou1", "jia2", "ge2", "{amount}", "yuan1", "ju2",
      "zhe2", "yang1", "de1", "zhi1", "liang1", "tai2", "cha1", "le1", "dou1", "wo1",
      "yao1", "qiu1", "tui1", "huo1", "tui1", "kuan1", "ju2">>,
    <<"wo1", "gou2", "mai1", "de1", "{product}", "he2", "miao1", "shu2", "wan1",
      "quan2", "bu1", "fu1", "dou1", "zhi1", "liang1", "fei1", "chang1", "cha1", "ju2",
      "ding1", "dan1", "hao2", "{order_number}", "dou1", "jia2", "ge2", "{amount}",
      "yuan1", "ju2", "wo1", "yao1", "qiu1", "tui1", "huo1", "bing1", "quan2", "e1",
      "tui1", "kuan1", "ju2">>,
    <<"wo1", "zai2", "{date}", "can1", "jia3", "le1", "ni1", "men1", "de1", "cu1",
      "xiao2", "huo2", "dong1", "dou1", "gou2", "mai1", "le1", "{product}", "dou1",
      "ding1", "dan1", "hao2", "{order_number}", "dou1", "dan2", "mei1", "you1",
      "xiang1", "shou3", "dao1", "cheng1", "nuo1", "de1", "zhe1", "kou1", "{amount}",
      "yuan1", "ju2", "qing1", "jie1", "shi3", "qing2", "chu1", "ju2">>
  }

\* Some of PRODUCTS (lines 29-35): iPhone 13, 小米11, Nike运动鞋.
GeneratedProducts ==
    {
      <<"i", "P", "h", "o", "n", "e", " ", "1", "3">>,
      <<"xiao3", "mi2", "1", "1">>,
      <<"N", "i", "k", "e", "yun1", "dong1", "xie1">>
    }

\* generate_order_number() (line 39) and generate_random_date() (line 46), one
\* of each: ORD-12345678, 2024-01-15.
GeneratedOrderNumbers == { <<"O", "R", "D", "-", "1", "2", "3", "4", "5", "6", "7", "8">> }
GeneratedDates == { <<"2", "0", "2", "4", "-", "0", "1", "-", "1", "5">> }

\* random.randint(100, 5000) and random.randint(0, 99) (line 58): the ends and
\* some values between them.
WholeUnits == {100, 2599, 5000}
HundredthParts == {0, 5, 25, 50, 99}

DigitChar(d) == <<"0", "1", "2", "3", "4", "5", "6", "7", "8", "9">>[d + 1]

RECURSIVE Decimal(_)
\* str(n) for an int n >= 0
Decimal(n) ==
    IF n < 10 THEN <<DigitChar(n)>>
    ELSE Decimal(n \div 10) \o <<DigitChar(n % 10)>>

\* str(whole + hundredths / 100), how format() writes the float amount (lines
\* 58 and 69): the shortest decimal that reads back as the float, that is the
\* whole, a point and the hundredths without a trailing zero, one digit at least
\* (100.0, 100.05, 100.5, 100.99).
FloatStr(whole, hundredths) ==
    Decimal(whole) \o <<".">>
    \o (IF hundredths % 10 = 0 THEN <<DigitChar(hundredths \div 10)>>
        ELSE <<DigitChar(hundredths \div 10), DigitChar(hundredths % 10)>>)

RECURSIVE FormatFrom(_, _, _)
\* template.format(**fields) (lines 64-70), from token i on.
FormatFrom(template, fields, i) ==
    IF i > Len(template) THEN <<>>
    ELSE (IF template[i] \in DOMAIN fields THEN fields[template[i]] ELSE <<template[i]>>)
         \o FormatFrom(template, fields, i + 1)

\* content (lines 58-70) for one draw of the random values.
GeneratedContent(template, product, order_number, date, whole, hundredths) ==
    FormatFrom(template,
               ("{product}" :> product) @@ ("{order_number}" :> order_number)
               @@ ("{date}" :> date) @@ ("{amount}" :> FloatStr(whole, hundredths)),
               1)

GeneratedContents ==
    { GeneratedContent(template, product, order_number, date, whole, hundredths) :
        template \in AmountTemplates, product \in GeneratedProducts,
        order_number \in GeneratedOrderNumbers, date \in GeneratedDates,
        whole \in WholeUnits, hundredths \in HundredthParts }

----------------------------------------------------------------------------
(* __init__, lines 18-40 *)

\* USE_TRANSFORMER_CLASSIFIER is not set in the environment.
Unset == <<"<unset>">>

\* The setting of an engine whose construction was not observed.
AnySetting == <<"<any>">>

\* What USE_TRANSFORMER_CLASSIFIER may hold: nothing, True, true, TRUE, False,
\* false, 0, 1, yes, the empty string.
Settings ==
    { Unset,
      <<"T", "r", "u", "e">>,
      <<"t", "r", "u", "e">>,
      <<"T", "R", "U", "E">>,
      <<"F", "a", "l", "s", "e">>,
      <<"f", "a", "l", "s", "e">>,
      <<"0">>,
      <<"1">>,
      <<"y", "e", "s">>,
      <<>> }

\* os.getenv(name, default)
getenv(value, default) == IF value = Unset THEN default ELSE value

\* os.getenv("USE_TRANSFORMER_CLASSIFIER", "True").lower() == "true" (line 27)
UseTransformer(setting) ==
    lower(getenv(setting, <<"T", "r", "u", "e">>)) = <<"t", "r", "u", "e">>

\* How pipeline(...) ends (lines 58-62): the model is loaded, or an Exception
\* is raised (no network, no cached model, not enough memory).
ModelLoads == {"loaded", "failed"}

\* resources/complaint_categories.json: missing, holding a mapping, or not JSON.
CategoryFiles ==
    { [kind |-> "missing"], [kind |-> "malformed"] }
    \cup { [kind |-> "mapping", categories |-> cats] : cats \in {ScenarioCategories, <<>>} }

\* _load_complaint_categories (lines 68-101) on a file that is missing (the
\* built-in taxonomy is written and returned) or holds a mapping (returned as
\* loaded).
LoadComplaintCategories(file) ==
    IF file.kind = "missing" THEN DefaultCategories ELSE file.categories

\* UseTransformerAfterLoad without line 66: the flag stays as line 27 set it.
UseTransformerKept(load) == TRUE

\* self.use_transformer after _initialize_transformer_model (lines 54-66) on an
\* engine whose setting is on: the except clause of lines 64-66 turns it off.
UseTransformerAfterLoad(load) == load = "loaded"

\* The engine is not constructed yet, and one whose construction was not observed.
NotConstructed == [stage |-> "new", setting |-> Unset, model |-> "not loaded",
                   file |-> "none"]
Constructed == [stage |-> "done", setting |-> AnySetting, model |-> "any",
                file |-> "any"]

\* ComplaintClassifier(): lines 18-40.  json.load (line 98) raises on a file
\* that is not JSON, before the model is looked at; the model is loaded only
\* when the setting is on (lines 37-38), and its failure is caught (line 64).
Construct(setting, file, load) ==
    /\ construction.stage = "new"
    /\ IF file.kind = "malformed"
       THEN /\ construction' = [stage |-> "failed", setting |-> setting,
                                model |-> "not loaded", file |-> file.kind]
            /\ UNCHANGED <<complaint_categories, use_transformer, pc>>
       ELSE /\ construction' = [stage |-> "done", setting |-> setting,
                                model |-> IF UseTransformer(setting) THEN load
                                          ELSE "not loaded",
                                file |-> file.kind]
            /\ complaint_categories' = LoadComplaintCategories(file)
            /\ use_transformer' = IF UseTransformer(setting)
                                  THEN UseTransformerAfterLoad(load)
                                  ELSE FALSE
            /\ pc' = "idle"
    /\ UNCHANGED <<op, text, invoked, response, word_counts, line, category, raised,
                   severity_scores, info, remembered, tokens>>
    /\ UNCHANGED <<concurrency_vars, pipeline, database, mailbox>>

----------------------------------------------------------------------------
(* The engine *)

\* The engine after __init__ (lines 18-40): the taxonomy is loaded, and
\* use_transformer is on only if the environment asks for it and the model
\* loaded (lines 27, 64-66).
Init ==
    /\ complaint_categories \in Taxonomies
    /\ use_transformer \in BOOLEAN
    /\ pc = "idle"
    /\ op = "none"
    /\ text = <<>>
    /\ invoked = FALSE
    /\ response = NoResponse
    /\ word_counts = <<>>
    /\ line = 0
    /\ category = NoValue
    /\ raised = ""
    /\ severity_scores = <<>>
    /\ info = NoInfo
    /\ remembered = NoCall
    /\ tokens = NoTokens
    /\ pipeline = NoPipeline
    /\ threads = [th \in Threads |-> IdleThread]
    /\ frames = [th \in Threads |-> NoFrame]
    /\ construction = Constructed
    /\ database = NoDatabase
    /\ mailbox = <<>>

Next ==
    \/ \E t \in Texts : Classify(t)
    \/ \E i \in 1..Len(complaint_categories), c \in Confidences :
            ClassifierReturns(complaint_categories[i].name, c)
    \/ ClassifierRaises
    \/ \E t \in Texts : ExtractKeyInfo(t)
    \/ Continue

Spec == Init /\ [][Next]_vars

\* What the engine itself does: its methods run, and their callers go on.
EngineStep ==
    \/ \E t \in Texts : Classify(t)
    \/ \E t \in Texts : ExtractKeyInfo(t)
    \/ Continue

\* The interpreter keeps running the engine's code.  Nothing obliges the
\* zero-shot pipeline to answer: lines 118-124 put no timeout around the call.
FairSpec == Spec /\ WF_vars(EngineStep)

\* Severity runs: extract_key_info on the severity texts (it reads neither
\* the taxonomy nor use_transformer).
InitSeverity == Init /\ complaint_categories = DefaultCategories

NextSeverity ==
    \/ \E t \in SeverityTexts : ExtractKeyInfo(t)
    \/ Continue

SpecSeverity == InitSeverity /\ [][NextSeverity]_vars

\* Repeated-call runs: an engine without the zero-shot model, any sequence of
\* calls, and an observer who remembers one of them.
InitRepeat == Init /\ ~use_transformer

NextRepeat ==
    \/ \E t \in RepeatTexts : Classify(t)
    \/ \E t \in RepeatTexts : ExtractKeyInfo(t)
    \/ Remember
    \/ NoteOther
    \/ Continue

SpecRepeat == InitRepeat /\ [][NextRepeat]_vars

\* Product, amount and date runs: extract_key_info on texts made of the
\* characters the pattern of line 169, of line 187, of line 205 looks for.
InitExtract == InitSeverity /\ ~use_transformer

NextProduct ==
    \/ \E t \in ProductTexts : ExtractKeyInfo(t)
    \/ Continue

SpecProduct == InitExtract /\ [][NextProduct]_vars

NextAmount ==
    \/ \E t \in AmountTexts : ExtractKeyInfo(t)
    \/ Continue

SpecAmount == InitExtract /\ [][NextAmount]_vars

NextDate ==
    \/ \E t \in DateTexts : ExtractKeyInfo(t)
    \/ Continue

SpecDate == InitExtract /\ [][NextDate]_vars

\* Round-trip runs: extract_key_info on the texts of the round-trip shape.
NextRoundTrip ==
    \/ \E t \in RoundTripTexts : ExtractKeyInfo(t)
    \/ Continue

SpecRoundTrip == InitExtract /\ [][NextRoundTrip]_vars

\* Pipeline runs: process_complaints on an engine with the taxonomy of the
\* scenario or an empty one.
InitPipeline ==
    /\ complaint_categories \in {ScenarioCategories, <<>>}
    /\ use_transformer \in BOOLEAN
    /\ pc = "idle"
    /\ op = "none"
    /\ text = <<>>
    /\ invoked = FALSE
    /\ response = NoResponse
    /\ word_counts = <<>>
    /\ line = 0
    /\ category = NoValue
    /\ raised = ""
    /\ severity_scores = <<>>
    /\ info = NoInfo
    /\ remembered = NoCall
    /\ tokens = NoTokens
    /\ pipeline = NoPipeline
    /\ threads = [th \in Threads |-> IdleThread]
    /\ frames = [th \in Threads |-> NoFrame]
    /\ construction = Constructed
    /\ database = NoDatabase
    /\ mailbox \in Mailboxes

NextPipeline ==
    \/ PipelineFetch
    \/ PipelineClassify
    \/ \E i \in 1..Len(complaint_categories), c \in Confidences :
            ClassifierReturns(complaint_categories[i].name, c)
    \/ ClassifierRaises
    \/ PipelineTakeType
    \/ PipelineAnalyze
    \/ PipelineExtract
    \/ PipelineAppend
    \/ PipelineSave

SpecPipeline == InitPipeline /\ [][NextPipeline]_vars

\* Tokenizer runs: classify on texts with blanks and digits, against a
\* taxonomy whose keywords have them too; word_tokenize works or fails from
\* one call to the next, and an observer remembers one call.
InitTokens == Init /\ complaint_categories = TokenCategories

NextTokens ==
    \/ \E t \in TokenTexts : Classify(t)
    \/ \E i \in 1..Len(complaint_categories), c \in Confidences :
            ClassifierReturns(complaint_categories[i].name, c)
    \/ ClassifierRaises
    \/ RememberTokens
    \/ Continue

SpecTokens == InitTokens /\ [][NextTokens]_vars

\* Concurrent runs: an engine without the zero-shot model, on the taxonomy of
\* the scenario or the built-in one, and threads that call it without a lock;
\* the scheduler may switch threads between any two steps.
InitConcurrent ==
    /\ Init
    /\ ~use_transformer
    /\ complaint_categories \in {ScenarioCategories, DefaultCategories}

NextConcurrent ==
    \E th \in Threads :
        \/ \E t \in ConcurrentTexts : ThreadClassify(th, t)
        \/ ThreadCount(th)
        \/ ThreadSelect(th)
        \/ \E t \in ConcurrentTexts : ThreadExtract(th, t)
        \/ ThreadProduct(th)
        \/ ThreadAmount(th)
        \/ ThreadDate(th)
        \/ ThreadInitScores(th)
        \/ ThreadScore(th)
        \/ ThreadDecide(th)
        \/ ThreadContinue(th)

SpecConcurrent == InitConcurrent /\ [][NextConcurrent]_vars

\* Construction runs: the engine is constructed under any setting, with the
\* categories file and the model load ending either way, and then called.
InitConstruct ==
    /\ construction = NotConstructed
    /\ complaint_categories = <<>>
    /\ use_transformer = FALSE
    /\ pc = "new"
    /\ op = "none"
    /\ text = <<>>
    /\ invoked = FALSE
    /\ response = NoResponse
    /\ word_counts = <<>>
    /\ line = 0
    /\ category = NoValue
    /\ raised = ""
    /\ severity_scores = <<>>
    /\ info = NoInfo
    /\ remembered = NoCall
    /\ tokens = NoTokens
    /\ pipeline = NoPipeline
    /\ threads = [th \in Threads |-> IdleThread]
    /\ frames = [th \in Threads |-> NoFrame]
    /\ database = NoDatabase
    /\ mailbox = <<>>

NextConstruct ==
    \/ \E setting \in Settings, file \in CategoryFiles, load \in ModelLoads :
            Construct(setting, file, load)
    \/ \E t \in Texts : Classify(t)
    \/ \E i \in 1..Len(complaint_categories), c \in Confidences :
            ClassifierReturns(complaint_categories[i].name, c)
    \/ ClassifierRaises
    \/ Continue

SpecConstruct == InitConstruct /\ [][NextConstruct]_vars

\* Database runs: any sequence of save_complaints and get_complaints_by_type
\* calls on one database, over several days.
InitDatabase == InitExtract

NextDatabase ==
    \/ \E complaints_data \in ComplaintsData : SaveComplaints(complaints_data)
    \/ \E complaint_type \in TypeArguments, days \in DaysArguments :
            GetComplaintsByType(complaint_type, days)
    \/ DatabaseReturns
    \/ DayPasses

SpecDatabase == InitDatabase /\ [][NextDatabase]_vars

\* Generated runs: extract_key_info on the contents generate_test_complaints
\* makes from the templates with a price.
NextGenerated ==
    \/ \E t \in GeneratedContents : ExtractKeyInfo(t)
    \/ Continue

SpecGenerated == InitExtract /\ [][NextGenerated]_vars

----------------------------------------------------------------------------
(* The vocabulary of the claims *)

\* Keyword occurs in t as a substring, letter case aside.
Occurs(keyword, t) ==
    \E i \in 0..(Len(t) - Len(keyword)) :
        \A j \in 1..Len(keyword) : LowerChar(t[i + j]) = LowerChar(keyword[j])

\* The number of keywords of a category that occur in t.
Score(cat, t) == Cardinality({k \in 1..Len(cat.keywords) : Occurs(cat.keywords[k], t)})

Categories == 1..Len(complaint_categories)

TaxonomyKeys == {complaint_categories[c].name : c \in Categories}

\* A classify call has ended (by a return or by an exception).
ClassifyEnded == op = "classify" /\ pc = "returned"

\* An extract_key_info call has ended.
ExtractEnded == op = "extract_key_info" /\ pc = "returned"

\* The text is empty or null.
EmptyOrNull == text = None \/ text = <<>>

\* The call ran the keyword classifier: the text is not empty, and the
\* semantic classifier is disabled or its invocation failed.
KeywordPath ==
    ClassifyEnded /\ ~EmptyOrNull /\ (~use_transformer \/ response = NoResponse)

\* The text holds a keyword of category c and of no other category.
OnlyCategory(c) ==
    /\ text /= None
    /\ Score(complaint_categories[c], text) >= 1
    /\ \A d \in Categories \ {c} : Score(complaint_categories[d], text) = 0

\* The categories with the largest score.
Best == {c \in Categories :
            \A d \in Categories :
                Score(complaint_categories[d], text) <= Score(complaint_categories[c], text)}

First(S) == CHOOSE c \in S : \A d \in S : c <= d

----------------------------------------------------------------------------
(* The claims *)

\* C1: classify returns the sentinel for every empty or null text, at line
\* 114: the semantic classifier is not invoked and no score table is built,
\* whatever the taxonomy and use_transformer.
C1_EmptyTextUnclassified ==
    (op = "classify" /\ EmptyOrNull) =>
        /\ pc = "returned"
        /\ line = 114
        /\ category = Unclassified
        /\ raised = ""
        /\ ~invoked
        /\ response = NoResponse
        /\ word_counts = <<>>

\* C1, its case: classify("") has returned on an engine whose semantic
\* classifier is enabled and whose taxonomy has categories.
C1_Witness ==
    /\ ClassifyEnded
    /\ text = <<>>
    /\ use_transformer
    /\ Categories /= {}
    /\ category = Unclassified

\* C2 as claimed: whenever the text holds a keyword of exactly one category,
\* classify returns that category.
C2_OnlyCategoryReturned ==
    \A c \in Categories :
        (ClassifyEnded /\ OnlyCategory(c)) => category = complaint_categories[c].name

\* C2 as amended: whenever the text holds a keyword of exactly one category
\* and classify runs the keyword classifier (the semantic classifier is
\* disabled or its invocation failed), classify returns that category.
C2_OnlyCategoryOnKeywordPath ==
    \A c \in Categories :
        (KeywordPath /\ OnlyCategory(c)) =>
            /\ raised = ""
            /\ category = complaint_categories[c].name

\* C2, its case: the semantic classifier failed, the text holds a keyword of
\* the second category only, and that category was returned.
C2_Witness ==
    /\ KeywordPath
    /\ invoked
    /\ Len(complaint_categories) >= 2
    /\ OnlyCategory(2)
    /\ category = complaint_categories[2].name

\* C3: on the keyword path the score of each category is the number of its
\* keywords that occur in the text, and when the largest score is positive
\* classify returns the first category, in taxonomy order, that has it.
C3_ScoresAndFirstOfBest ==
    KeywordPath =>
        /\ Len(word_counts) = Len(complaint_categories)
        /\ \A c \in Categories : word_counts[c] = Score(complaint_categories[c], text)
        /\ \A c \in Best :
              Score(complaint_categories[c], text) > 0 =>
                  /\ raised = ""
                  /\ category = complaint_categories[First(Best)].name

\* C3, its case: the text is 延迟延迟, two categories have the keyword 延迟 and
\* score 1 each, and the first of them was returned.
C3_Witness ==
    /\ KeywordPath
    /\ text = <<"yan1", "chi1", "yan1", "chi1">>
    /\ word_counts = <<1, 1>>
    /\ Best = {1, 2}
    /\ category = complaint_categories[1].name

\* C4: what classify returns is a key of the taxonomy or the sentinel; on
\* the keyword path it is the sentinel exactly when no keyword of any
\* category occurs in the text.
C4_KeyOrSentinel ==
    (ClassifyEnded /\ raised = "") =>
        /\ category \in TaxonomyKeys \cup {Unclassified}
        /\ KeywordPath =>
              (category = Unclassified
                  <=> \A c \in Categories : Score(complaint_categories[c], text) = 0)

\* C4, its case: no keyword of several categories occurs in the text, all tie
\* at 0, and the sentinel was returned.
C4_Witness ==
    /\ KeywordPath
    /\ Len(complaint_categories) >= 2
    /\ \A c \in Categories :
          /\ complaint_categories[c].keywords /= <<>>
          /\ Score(complaint_categories[c], text) = 0
    /\ category = Unclassified

\* The number of keywords of a severity bucket that occur in t, as written.
BucketScore(b, t) ==
    Cardinality({k \in 1..Len(severity_keywords[b].keywords) :
                    Contains(severity_keywords[b].keywords[k], t)})

\* C5: severity is the bucket with the largest number of matching keywords;
\* at a positive tie 高 wins over 中 and 低, and 中 over 低; with no match at
\* all it is 中.
C5_SeverityByCountThenPriority ==
    (ExtractEnded /\ text /= None) =>
        LET high == BucketScore(1, text)
            medium == BucketScore(2, text)
            low == BucketScore(3, text)
        IN  /\ "severity" \in DOMAIN info
            /\ info["severity"] =
                  IF high = 0 /\ medium = 0 /\ low = 0 THEN "zhong"
                  ELSE IF high >= medium /\ high >= low THEN "gao"
                  ELSE IF medium >= low THEN "zhong"
                  ELSE "di"

\* C5, its case: one keyword of 高 and three of 低 give 低.
C5_Witness ==
    /\ ExtractEnded
    /\ text /= None
    /\ BucketScore(1, text) = 1
    /\ BucketScore(2, text) = 0
    /\ BucketScore(3, text) = 3
    /\ info["severity"] = "di"

\* C6 as claimed: for the empty text and for None, extract_key_info returns
\* without raising a dict that holds severity 中 and nothing else.
C6_EmptyTextDefaultInfo ==
    (ExtractEnded /\ EmptyOrNull) =>
        /\ raised = ""
        /\ info = [severity |-> "zhong"]

\* C7 as claimed: when the invocation of the semantic classifier fails,
\* classify raises nothing and returns the category of the keyword
\* classifier.
C7_FailureFallsBack ==
    (ClassifyEnded /\ invoked /\ response = NoResponse) =>
        /\ raised = ""
        /\ category = KeywordMatching(complaint_categories, text).category

\* C8 as claimed: when the semantic classifier answers with low confidence,
\* classify returns what the keyword classifier returns, not the answer.
C8_LowConfidenceFallsBack ==
    (ClassifyEnded /\ response.confidence = "low") =>
        /\ raised = KeywordMatching(complaint_categories, text).raised
        /\ category = KeywordMatching(complaint_categories, text).category

\* C9 as claimed: every call of classify that waits for the semantic
\* classifier ends, whether or not the semantic classifier answers.
C9_EveryCallEnds == (pc = "classifier") ~> (pc = "returned")

\* C10: with the semantic classifier disabled, a call gives what the same
\* call (same method, same text) gave earlier on the same engine, whatever
\* was called in between.
C10_SameCallSameOutcome ==
    (pc = "returned" /\ remembered.op = op /\ remembered.text = text) =>
        /\ remembered.category = category
        /\ remembered.raised = raised
        /\ remembered.info = info

\* C10, its case: classify was called on a text, then something on another
\* text, then classify on the first text again, which gave the same category
\* of the taxonomy.
C10_Witness ==
    /\ ClassifyEnded
    /\ remembered.op = "classify"
    /\ remembered.text = text
    /\ remembered.between
    /\ category \in TaxonomyKeys
    /\ remembered.category = category

\* What a call gives when it runs alone on an engine without the zero-shot
\* model.
Alone(method, t) ==
    IF method = "classify"
    THEN IF ~Truthy(t)
         THEN [category |-> Unclassified, raised |-> "", info |-> NoInfo]
         ELSE [category |-> KeywordMatching(complaint_categories, t).category,
               raised |-> KeywordMatching(complaint_categories, t).raised,
               info |-> NoInfo]
    ELSE IF t = None
         THEN [category |-> NoValue, raised |-> "TypeError", info |-> NoInfo]
         ELSE [category |-> NoValue, raised |-> "", info |-> Info(t, SeverityScores(t))]

\* The tables of a call in progress hold what the call alone has put there.
OwnTables(th) ==
    LET c == threads[th]
        f == frames[th]
    IN  /\ c.at = "counting" =>
              f.word_counts =
                  [k \in 1..Len(complaint_categories) |->
                      IF k < c.i THEN Score(complaint_categories[k], c.text) ELSE 0]
        /\ c.at \in {"amount", "date", "scores", "scoring"} =>
              \A key \in DOMAIN f.info :
                  key \in DOMAIN Info(c.text, SeverityScores(c.text))
                  /\ f.info[key] = Info(c.text, SeverityScores(c.text))[key]
        /\ c.at = "scoring" =>
              f.severity_scores =
                  [k \in 1..Len(severity_keywords) |->
                      IF k < c.i THEN SeverityScores(c.text)[k] ELSE 0]

\* C11: whatever the interleaving of the calls of several threads on one
\* engine, each call ends with what it gives when it runs alone, and while it
\* runs its score tables and its record hold only what it has put there itself.
C11_InterleavedCallsAsAlone ==
    \A th \in Threads :
        /\ threads[th].at = "returned" =>
              /\ threads[th].category = Alone(threads[th].op, threads[th].text).category
              /\ threads[th].raised = Alone(threads[th].op, threads[th].text).raised
              /\ threads[th].info = Alone(threads[th].op, threads[th].text).info
        /\ OwnTables(th)

\* C11, its case: one thread has returned from classify with a category while
\* the other is in the middle of the severity loop of extract_key_info on
\* another text, with a product and an amount already in its record.
C11_Witness ==
    /\ threads["t1"].op = "classify"
    /\ threads["t1"].at = "returned"
    /\ threads["t1"].category \in TaxonomyKeys
    /\ threads["t2"].op = "extract_key_info"
    /\ threads["t2"].at = "scoring"
    /\ threads["t2"].i = 2
    /\ threads["t2"].text /= threads["t1"].text
    /\ DOMAIN frames["t2"].info = {"product_name", "amount"}

\* C12 as claimed: a constructed engine holds a taxonomy with at least one
\* category, each with at least one keyword, and classify never reaches line
\* 146 with an empty score table.
C12_TaxonomyValidated ==
    /\ Len(complaint_categories) >= 1
    /\ \A c \in Categories : complaint_categories[c].keywords /= <<>>
    /\ ~(ClassifyEnded /\ line = 146 /\ word_counts = <<>>)

\* C12, the failing case: on a constructed engine with an empty taxonomy,
\* classify ran the keyword classifier and max() raised at line 146.
C12_Witness ==
    /\ complaint_categories = <<>>
    /\ ClassifyEnded
    /\ text = <<"yan1", "chi1">>
    /\ line = 146
    /\ raised = "ValueError"

\* The exceptions word_tokenize raises.
TokenizerErrors == {"LookupError"}

\* C13: a call of classify in which word_tokenize failed raises no tokenizer
\* error, and it ends as the call on the same text in which word_tokenize
\* worked: same category, same exception if any.
C13_TokenizerFailureHarmless ==
    (ClassifyEnded /\ tokens.by = "split") =>
        /\ raised \notin TokenizerErrors
        /\ (remembered.op = "classify" /\ remembered.text = text
                /\ remembered.tokens.by = "word_tokenize") =>
              /\ category = remembered.category
              /\ raised = remembered.raised

\* C13, its case: classify("5g 延迟") with a failing word_tokenize, whose
\* fallback tokens (5g, 延迟) differ from the tokens of the earlier call (延迟),
\* returned the same category of the taxonomy.
C13_Witness ==
    /\ ClassifyEnded
    /\ text = <<"5", "g", " ", "yan1", "chi1">>
    /\ tokens = [by |-> "split", value |-> << <<"5", "g">>, <<"yan1", "chi1">> >>]
    /\ remembered.op = "classify"
    /\ remembered.text = text
    /\ remembered.tokens = [by |-> "word_tokenize", value |-> << <<"yan1", "chi1">> >>]
    /\ category = "WangLuo"
    /\ remembered.category = category

\* The first match of the product pattern in the text, and what the claim
\* takes from it: the content of a quoted span, or the uppercase run itself.
FirstProductMatch == findall(product_pattern, text)[1]

ClaimedProduct ==
    IF FirstProductMatch.alt \in {1, 2} THEN FirstProductMatch.group
    ELSE Whole(text, FirstProductMatch)

\* C14 as claimed: when a double-quoted span, a single-quoted span or a run of
\* two or more uppercase letters occurs in the text, product_name is set from
\* the leftmost of them: the content of the span, or the run.
C14_LeftmostMatchIsProduct ==
    (ExtractEnded /\ text /= None /\ findall(product_pattern, text) /= <<>>) =>
        /\ "product_name" \in DOMAIN info
        /\ info["product_name"] = ClaimedProduct

\* C14, the failing case: the text is AB"x"; its leftmost match is the run AB,
\* and product_name is x.
C14_Witness ==
    /\ ExtractEnded
    /\ text = <<"A", "B", "\"", "x", "\"">>
    /\ ClaimedProduct = <<"A", "B">>
    /\ info["product_name"] = <<"x">>

DigitsBetween(t, i, j) == i < j /\ \A k \in i..(j - 1) : t[k] \in DigitChars

\* Positions i..j-1 of t hold digits, or digits, a point and two digits.
NumberBetween(t, i, j) ==
    \/ DigitsBetween(t, i, j)
    \/ /\ DigitsBetween(t, i, j - 3)
       /\ t[j - 3] = "."
       /\ DigitsBetween(t, j - 2, j)

\* Positions i..j-1 of t hold blanks, or nothing.
BlanksBetween(t, i, j) == i <= j /\ \A k \in i..(j - 1) : t[k] \in Whitespace

\* The amounts written in t from position i: a '$', blanks and a number; a
\* number, blanks and 美元; a number, blanks and 元.  kind is the place of the
\* form in this list, from..to-1 the number and end-1 the last position.
AmountsAt(t, i) ==
    LET n == Len(t)
        dollar ==
            IF t[i] /= "$" THEN {}
            ELSE UNION { { [kind |-> 1, from |-> g, to |-> j, end |-> j] :
                            j \in {j \in (g + 1)..(n + 1) : NumberBetween(t, g, j)} } :
                         g \in {g \in (i + 1)..n : BlanksBetween(t, i + 1, g)} }
        numbers == {j \in (i + 1)..(n + 1) : NumberBetween(t, i, j)}
        unit(kind, word) ==
            UNION { { [kind |-> kind, from |-> i, to |-> j, end |-> e + Len(word)] :
                        e \in {e \in j..(n + 1 - Len(word)) :
                                  /\ BlanksBetween(t, j, e)
                                  /\ SubSeq(t, e, e + Len(word) - 1) = word} } :
                    j \in numbers }
    IN  dollar \cup unit(2, <<"mei2", "yuan1">>) \cup unit(3, <<"yuan1">>)

\* The leftmost amount written in t: the first position where one is written,
\* there the first form of the list, and of this form the longest.
WrittenAt(t) == {i \in 1..Len(t) : AmountsAt(t, i) /= {}}

LeftmostAmount(t) ==
    LET i == CHOOSE i \in WrittenAt(t) : \A k \in WrittenAt(t) : i <= k
    IN  CHOOSE m \in AmountsAt(t, i) :
            \A o \in AmountsAt(t, i) :
                m.kind < o.kind \/ (m.kind = o.kind /\ m.end >= o.end)

\* C16: amount is the value of the number of the leftmost amount written in
\* the text, whatever its form and whatever follows it, and the key is absent
\* when no amount is written.
C16_LeftmostAmount ==
    (ExtractEnded /\ text /= None) =>
        IF WrittenAt(text) = {}
        THEN "amount" \notin DOMAIN info
        ELSE /\ "amount" \in DOMAIN info
             /\ info["amount"] =
                    float(SubSeq(text, LeftmostAmount(text).from, LeftmostAmount(text).to - 1))

\* C16, its case: .50元$7 gives 50, the amount with a unit that comes first,
\* and not the 7 of the '$' amount after it.
C16_Witness ==
    /\ ExtractEnded
    /\ text = <<".", "5", "0", "yuan1", "$", "7">>
    /\ LeftmostAmount(text).kind = 3
    /\ info["amount"] = 5000

\* The dates written in t from position i: digits, a separator, digits, a
\* separator, digits, with 4, 1-2 and 1-2 digits (kind 1), 1-2, 1-2 and 4 digits
\* (kind 2) or 1-2, 1-2 and 2 digits (kind 3); end-1 is the last position.
DatesAt(t, i) ==
    LET n == Len(t)
        Separator(k) == k <= n /\ t[k] \in {"-", "/"}
        shaped(kind, first, second, third) ==
            { [kind |-> kind, end |-> b + 1 + l3] :
                <<a, b, l3>> \in
                    { <<a, b, l3>> \in ((i + 1)..n) \X ((i + 3)..n) \X third :
                        /\ (a - i) \in first
                        /\ (b - a - 1) \in second
                        /\ b + l3 <= n
                        /\ Separator(a) /\ Separator(b)
                        /\ DigitsBetween(t, i, a)
                        /\ DigitsBetween(t, a + 1, b)
                        /\ DigitsBetween(t, b + 1, b + 1 + l3) } }
    IN  shaped(1, {4}, {1, 2}, {1, 2})
        \cup shaped(2, {1, 2}, {1, 2}, {4})
        \cup shaped(3, {1, 2}, {1, 2}, {2})

DatedAt(t) == {i \in 1..Len(t) : DatesAt(t, i) /= {}}

\* The leftmost date written in t: the first position where one is written,
\* there the first kind, and of this kind the longest.
LeftmostDate(t) ==
    LET i == CHOOSE i \in DatedAt(t) : \A k \in DatedAt(t) : i <= k
        m == CHOOSE m \in DatesAt(t, i) :
                \A o \in DatesAt(t, i) :
                    m.kind < o.kind \/ (m.kind = o.kind /\ m.end >= o.end)
    IN  [kind |-> m.kind, written |-> SubSeq(t, i, m.end - 1)]

\* C17: incident_date is the leftmost date written in the text, exactly as
\* written (a piece of the text, no validation, no normalisation), and the key
\* is absent when no date is written.
C17_LeftmostDateVerbatim ==
    (ExtractEnded /\ text /= None) =>
        IF DatedAt(text) = {}
        THEN "incident_date" \notin DOMAIN info
        ELSE /\ "incident_date" \in DOMAIN info
             /\ info["incident_date"] = LeftmostDate(text).written
             /\ Contains(info["incident_date"], text)

\* C17, its case: the impossible date 2024-13-5 is stored as written.
C17_Witness ==
    /\ ExtractEnded
    /\ text = <<"2", "0", "2", "4", "-", "1", "3", "-", "5">>
    /\ LeftmostDate(text).kind = 1
    /\ info["incident_date"] = text

\* C18 as claimed: for every string, extract_key_info returns a record with
\* keys among product_name, amount, incident_date and severity; severity is
\* always there, 高, 中 or 低; and each of the three others is there exactly when
\* its own pattern matches the text.
C18_FieldsIffMatched ==
    (ExtractEnded /\ text /= None) =>
        /\ raised = ""
        /\ DOMAIN info \subseteq {"product_name", "amount", "incident_date", "severity"}
        /\ "severity" \in DOMAIN info
        /\ info["severity"] \in {"gao", "zhong", "di"}
        /\ "product_name" \in DOMAIN info <=> findall(product_pattern, text) /= <<>>
        /\ "amount" \in DOMAIN info <=> WrittenAt(text) /= {}
        /\ "incident_date" \in DOMAIN info <=> DatedAt(text) /= {}

\* C18, the failing case: the product pattern matches the text AB, and the
\* record has no product_name.
C18_Witness ==
    /\ ExtractEnded
    /\ text = <<"A", "B">>
    /\ findall(product_pattern, text) /= <<>>
    /\ info = [severity |-> "zhong"]

\* The extracted fields of a record of processed_complaints.
ExtractedFields(r) ==
    [key \in DOMAIN r \ {"id", "sender", "date", "content", "complaint_type",
                          "sentiment_label"} |-> r[key]]

\* C19: in process_complaints every complaint whose classification gave a
\* category, by whichever path, gets its record, and the extracted fields of
\* the record are those of extract_key_info on the content alone: the same
\* for the same content whatever the category and whether or not the semantic
\* classifier is enabled.  Extraction is called only once the category is there,
\* and the task fails only where classify itself raised.
C19_ExtractionWhateverThePath ==
    /\ \A j \in 1..Len(pipeline.processed_complaints) :
          LET r == pipeline.processed_complaints[j]
          IN  /\ r["content"] = pipeline.complaints[j].content
              /\ r["complaint_type"] \in TaxonomyKeys \cup {Unclassified}
              /\ ExtractedFields(r) = Info(r["content"], SeverityScores(r["content"]))
    /\ pipeline.stage \in {"classify", "analyze", "extract"} =>
          Len(pipeline.processed_complaints) = pipeline.k - 1
    /\ pipeline.stage = "done" =>
          Len(pipeline.processed_complaints) = Len(pipeline.complaints)
    /\ (pipeline.stage /= "none" /\ op = "extract_key_info") =>
          /\ pipeline.stage = "extract"
          /\ pipeline.complaint_type /= NoValue
          /\ text = Current.content
    /\ pipeline.stage = "failed" => pipeline.complaint_type = NoValue

\* C19, its case: the same content twice in one run, classified once by the
\* semantic classifier (a category of the taxonomy) and once by the keyword
\* classifier after the semantic one failed (unclassified), with the same
\* extracted fields, product and amount among them.
C19_Witness ==
    /\ pipeline.stage = "done"
    /\ use_transformer
    /\ Len(pipeline.processed_complaints) = 2
    /\ pipeline.processed_complaints[1]["content"] = pipeline.processed_complaints[2]["content"]
    /\ pipeline.processed_complaints[1]["complaint_type"] \in TaxonomyKeys
    /\ pipeline.processed_complaints[2]["complaint_type"] = Unclassified
    /\ ExtractedFields(pipeline.processed_complaints[1])
          = ExtractedFields(pipeline.processed_complaints[2])
    /\ {"product_name", "amount"} \subseteq DOMAIN pipeline.processed_complaints[1]

\* The upper-case form of a character, and a text in upper case, with the case
\* of every letter changed, and a taxonomy with its keywords rewritten.
UpperChar(c) ==
    IF \E i \in 1..Len(LowerChars) : LowerChars[i] = c
    THEN UpperChars[CHOOSE i \in 1..Len(LowerChars) : LowerChars[i] = c]
    ELSE c

upper(s) == [i \in 1..Len(s) |-> UpperChar(s[i])]

swapcase(s) == [i \in 1..Len(s) |-> IF LowerChar(s[i]) = s[i] THEN UpperChar(s[i])
                                    ELSE LowerChar(s[i])]

Rewritten(cats, Case(_)) ==
    [c \in 1..Len(cats) |->
        [cats[c] EXCEPT !.keywords = [k \in 1..Len(@) |-> Case(@[k])]]]

\* A keyword with a blank in it: no token holds it.
SpansTokens(keyword) == \E i \in 1..Len(keyword) : keyword[i] \in Whitespace

\* C20: on the keyword path the outcome is the one of the text in upper case,
\* in lower case and with the case of every letter changed, and the one
\* against the taxonomy with its keywords in upper, lower or changed case; and
\* a keyword that occurs in the text is counted, also when it has a blank in it
\* and so spans several tokens.
C20_CaseAndTokensIrrelevant ==
    KeywordPath =>
        /\ \A v \in {upper(text), lower(text), swapcase(text)} :
              /\ KeywordMatching(complaint_categories, v).category = category
              /\ KeywordMatching(complaint_categories, v).raised = raised
        /\ \A cats \in {Rewritten(complaint_categories, upper),
                        Rewritten(complaint_categories, lower),
                        Rewritten(complaint_categories, swapcase)} :
              /\ KeywordMatching(cats, text).category = category
              /\ KeywordMatching(cats, text).raised = raised
        /\ \A c \in Categories :
              \A k \in 1..Len(complaint_categories[c].keywords) :
                  (SpansTokens(complaint_categories[c].keywords[k])
                      /\ Occurs(complaint_categories[c].keywords[k], text)) =>
                          word_counts[c] >= 1

\* C20, its case: the text 5g APP against the keywords 5G and 5G App: both
\* count, the second across the two tokens 5g and app, and the first of the
\* two categories is returned.
C20_Witness ==
    /\ KeywordPath
    /\ text = <<"5", "g", " ", "A", "P", "P">>
    /\ tokens.value = << <<"5", "g">>, <<"a", "p", "p">> >>
    /\ word_counts = <<1, 1, 0>>
    /\ category = "WangLuo"

\* The setting switches the semantic classifier off: it is set, and is not
\* "true" in any letter case.
DisabledByConfiguration ==
    /\ construction.setting /= Unset
    /\ lower(construction.setting) /= <<"t", "r", "u", "e">>

\* The setting is on and the model failed to load.
FailedToLoad == ~DisabledByConfiguration /\ construction.model = "failed"

C22_CallsLeaveEngineUnchanged ==
    [][ /\ complaint_categories' = complaint_categories
        /\ use_transformer' = use_transformer
        /\ (op' = "extract_key_info" /\ pc' = "returned" /\ text' /= None) =>
              severity_scores' =
                  [b \in 1..Len(severity_keywords) |-> BucketScore(b, text')] ]_vars

\* C22, its case: the semantic classifier failed, the keyword path counted
\* keywords of the built-in taxonomy, and the taxonomy and the flag are as
\* construction left them.
C22_Witness ==
    /\ KeywordPath
    /\ invoked
    /\ use_transformer
    /\ \E c \in Categories : word_counts[c] >= 1
    /\ complaint_categories = DefaultCategories

\* A get_complaints_by_type call has ended.
QueryEnded == database.op = "get_complaints_by_type"

\* The stored complaint is of the type asked for (every type for None), and
\* was received at most days days ago.
OfType(complaint) ==
    database.complaint_type = NoneValue \/ complaint.complaint_type = database.complaint_type

ReceivedWithin(complaint, days) == database.today - complaint.date_received <= days

\* C23 as claimed: get_complaints_by_type(complaint_type, days) returns
\* exactly the stored complaints of the given type (all for None) received
\* within the last days days: one received d days ago is returned when
\* 0 < d <= days and is not returned when d > days.
C23_WithinLastDays ==
    (QueryEnded /\ database.days > 0 /\ database.complaint_type /= "") =>
        \A i \in 1..Len(database.rows) :
            (\E j \in 1..Len(database.result) : database.result[j] = database.rows[i])
                <=> (OfType(database.rows[i]) /\ ReceivedWithin(database.rows[i], database.days))

\* C23, the failing case: a complaint received yesterday is not among what
\* get_complaints_by_type(None), with the default of 30 days, returns.
C23_Witness ==
    /\ QueryEnded
    /\ database.complaint_type = NoneValue
    /\ database.days = DefaultDays
    /\ \E i \in 1..Len(database.rows) :
          /\ database.today - database.rows[i].date_received = 1
          /\ \A j \in 1..Len(database.result) : database.result[j] /= database.rows[i]

\* A save_complaints call has ended.
SaveEnded == database.op = "save_complaints"

\* The email_ids stored in a table.
StoredIds(rows) == {rows[i].email_id : i \in 1..Len(rows)}

\* The records of a batch that are to be inserted into the table rows: those
\* whose id is not stored and did not appear earlier in the batch.
ToInsert(complaints_data, rows) ==
    {k \in 1..Len(complaints_data) :
        /\ complaints_data[k]["id"] \notin StoredIds(rows)
        /\ \A j \in 1..(k - 1) : complaints_data[j]["id"] /= complaints_data[k]["id"]}

\* Every record of the batch has the keys that lines 105-120 read.
Complete(complaints_data) ==
    \A k \in 1..Len(complaints_data) : {"id", "sender"} \subseteq DOMAIN complaints_data[k]

\* C24: no two stored complaints ever share an email_id.  A save_complaints
\* call on complete records that the database commits inserts exactly the
\* records whose id is neither stored nor earlier in the batch, after the rows
\* there were, and returns their number; and a call on records whose ids are
\* all stored returns 0 and leaves the rows as they were.
C24_NoDuplicateIds ==
    /\ [](Unique(database.rows))
    /\ [][ (database.op = "none" /\ database'.op = "save_complaints"
               /\ Complete(database'.complaints_data)) =>
             LET batch == database'.complaints_data
                 new == ToInsert(batch, database.rows)
             IN  /\ database'.raised \in {"", "OperationalError"}
                 /\ database'.raised = "" =>
                       /\ database'.saved_count = Cardinality(new)
                       /\ Len(database'.rows) = Len(database.rows) + Cardinality(new)
                       /\ SubSeq(database'.rows, 1, Len(database.rows)) = database.rows
                       /\ StoredIds(database'.rows)
                             = StoredIds(database.rows) \cup {batch[k]["id"] : k \in new}
                 /\ new = {} =>
                       /\ database'.raised = ""
                       /\ database'.saved_count = 0
                       /\ database'.rows = database.rows ]_vars

\* C24, its case: on a table that holds message 1, a batch with message 2
\* twice and message 1 once more was saved: one row was inserted, and 1 returned.
C24_Witness ==
    /\ SaveEnded
    /\ database.raised = ""
    /\ Len(database.complaints_data) = 3
    /\ database.complaints_data[1]["id"] = "2"
    /\ database.complaints_data[2]["id"] = "2"
    /\ database.complaints_data[3]["id"] = "1"
    /\ database.saved_count = 1
    /\ Len(database.rows) = 2
    /\ database.rows[1].email_id = "1"
    /\ database.rows[2].email_id = "2"

\* Processing some record of the batch raises on the table rows: the record
\* lacks id, or it lacks another required key and is not skipped (its id is
\* neither stored nor earlier in the batch).
Faulty(complaints_data, rows) ==
    \E k \in 1..Len(complaints_data) :
        \/ "id" \notin DOMAIN complaints_data[k]
        \/ /\ "sender" \notin DOMAIN complaints_data[k]
           /\ complaints_data[k]["id"] \notin StoredIds(rows)
           /\ \A j \in 1..(k - 1) :
                 "id" \in DOMAIN complaints_data[j] =>
                     complaints_data[j]["id"] /= complaints_data[k]["id"]

\* C25: when processing a record of the batch raises, save_complaints raises
\* to its caller; and whenever save_complaints raises (a record, or the commit),
\* the stored rows are those before the call: no record of the batch is stored,
\* not even those processed before the failure.
C25_AllOrNothing ==
    [][ (database.op = "none" /\ database'.op = "save_complaints") =>
          /\ Faulty(database'.complaints_data, database.rows) <=> database'.raised = "KeyError"
          /\ database'.raised /= "" => database'.rows = database.rows ]_vars

\* C25, its case: on a table that holds message 1, a batch of message 2,
\* complete and new, followed by a record without id raised KeyError, and
\* message 2 is not stored.
C25_Witness ==
    /\ SaveEnded
    /\ database.raised = "KeyError"
    /\ Len(database.complaints_data) = 2
    /\ {"id", "sender"} \subseteq DOMAIN database.complaints_data[1]
    /\ database.complaints_data[1]["id"] = "2"
    /\ "id" \notin DOMAIN database.complaints_data[2]
    /\ StoredIds(database.rows) = {"1"}

\* A run of process_complaints has ended: normally, or with the exception of
\* fetch_emails, of classify or extract_key_info, or of save_complaints.
RunEnded == pipeline.stage \in {"done", "fetch failed", "failed", "save failed"}

\* The messages this run marked as read.
MarkedByRun == {i \in 1..Len(mailbox) : mailbox[i].seen = "run"}

\* C26 as claimed: when a run of process_complaints ends, normally or with an
\* error, every message that the run marked as read is stored in the database.
C26_MarkedReadIsStored ==
    RunEnded =>
        \A i \in MarkedByRun : mailbox[i].id \in StoredIds(database.rows)

\* C26, the failing case: the taxonomy is the scenario's, the first message
\* was fetched and marked as read, the second has no Subject header, so
\* fetch_emails raised; the run has ended and the database holds nothing.
C26_Witness ==
    /\ pipeline.stage = "fetch failed"
    /\ complaint_categories = ScenarioCategories
    /\ Len(mailbox) = 2
    /\ mailbox[1].seen = "run"
    /\ ~mailbox[2].subject
    /\ mailbox[2].seen = "no"
    /\ database.rows = <<>>

\* C27 as claimed: for every content generate_test_complaints makes from a
\* template with {amount}元, extract_key_info returns an amount equal to the
\* generated amount, whole units plus hundredths.
C27_GeneratedAmountRecovered ==
    \A template \in AmountTemplates, product \in GeneratedProducts,
       order_number \in GeneratedOrderNumbers, date \in GeneratedDates,
       whole \in WholeUnits, hundredths \in HundredthParts :
        (ExtractEnded
            /\ text = GeneratedContent(template, product, order_number, date,
                                       whole, hundredths)) =>
            /\ "amount" \in DOMAIN info
            /\ info["amount"] = whole * 100 + hundredths

\* C27, the failing case: the generated amount is 100.5, written 100.5元 in
\* the content, and extract_key_info returns the amount 5.
C27_Witness ==
    /\ ExtractEnded
    /\ \E template \in AmountTemplates, product \in GeneratedProducts,
          order_number \in GeneratedOrderNumbers, date \in GeneratedDates :
            text = GeneratedContent(template, product, order_number, date, 100, 50)
    /\ Contains(<<"1", "0", "0", ".", "5", "yuan1">>, text)
    /\ info["amount"] = 500

====
